---- MODULE Spec2Model ----
(***************************************************************************)
(* Model of the pull-request reviewer's core (src/src/github/pullRequest.js):*)
(* the diff line mapper extractValidCommentLines, the comment deduplicator *)
(* isDuplicateComment with its text utilities, and reviewFile, which       *)
(* composes the two.  Texts are TLA+ strings; a character is a string of   *)
(* length one.                                                             *)
(***************************************************************************)
EXTENDS Integers, Sequences, FiniteSets, TLC

VARIABLES
    pc,           \* position of the running function
    diff,         \* extractValidCommentLines: the diff text
    lines,        \* extractValidCommentLines: diff.split('\n')
    li,           \* extractValidCommentLines: index of the next line of the for-of loop
    currentLine,  \* extractValidCommentLines: the new-file cursor (Null = null)
    validLines,   \* extractValidCommentLines: the result array
    origin,       \* history: origin[k] = index of the diff line that pushed validLines[k]
    newComment,         \* isDuplicateComment: the candidate [line, body]
    existingComments,   \* isDuplicateComment: the comments already posted on the file
    isDuplicate,        \* isDuplicateComment: the value returned
    thrown,             \* isDuplicateComment: the error thrown, "" when it returned
    file,               \* reviewFile: the file of the pull request [status, binary, filename]
    config,             \* reviewFile: the configuration [commentPrefix]
    reviewComments,     \* reviewFile: what modelAdapter.reviewCode returned
    fi,                 \* reviewFile: index of the next comment of the filter
    validComments,      \* reviewFile: the comments the filter kept
    posted,             \* the comments arrays passed to createBatchReviewComments
    errors,             \* what reviewFile's catch block logged
    dupCalls,           \* history: the comments isDuplicateComment was called on
    calls,              \* history: the calls reviewFile made to GitHub and to the model
    callLog,            \* history: the calls of the two core functions, arguments and results
    text,               \* the comment body given to the text functions
    template,           \* extractCommentTemplate(text)
    retemplate,         \* extractCommentTemplate(template)
    terms,              \* extractKeywordsFromComment(text): its local technicalTerms
    keywords,           \* extractKeywordsFromComment(text): the value returned
    textA,               \* the first text given to the similarity functions
    textB,               \* the second text given to the similarity functions
    similarity,         \* stringSimilarity of textA and textB, in both orders and of textA with itself
    wordSimilarity,     \* wordBasedSimilarity of textA and textB, with its word lists
    overlap,            \* calculateKeywordOverlap of the keywords of textA and textB
    apiComments,        \* the review comments of the pull request, as octokit.pulls.listReviewComments returns them
    files,              \* reviewPullRequest: the files octokit.pulls.listFiles returned
    nextFile,           \* reviewPullRequest: index of the next file of the for-of loop
    skippedFiles,       \* reviewPullRequest: its array skippedFiles
    reviewedFiles,      \* reviewPullRequest: its counter reviewedFiles
    issueComments,      \* the comments posted with octokit.issues.createComment
    invoked,            \* history: the files reviewFile was invoked with
    rejected,           \* reviewPullRequest: the error it rejected with, "" when none
    cli,                \* index.js: the command, its environment and the config file it names
    loaded,             \* index.js: what loadConfig returned, [promise, value]
    adapter,            \* index.js: the adapter getModelAdapter built, [model]
    parsedResponse,     \* OpenAIAdapter.reviewCode: the comments array of the parsed response
    username,           \* deleteUserComments: the user whose comments are deleted
    apiReviews,         \* deleteUserComments: the reviews octokit.pulls.listReviews returned
    di,                 \* deleteUserComments: index of the next item of the running for-of loop
    attempted           \* history: the delete requests sent, [kind, id, user, ok]

mapperVars == <<diff, lines, li, currentLine, validLines, origin>>
dedupVars == <<newComment, existingComments, isDuplicate, thrown>>
fileVars == <<file, config, reviewComments, fi, validComments, posted, errors, dupCalls>>
textVars == <<text, template, retemplate, terms, keywords>>
simVars == <<textA, textB, similarity, wordSimilarity, overlap>>
prVars == <<files, nextFile, skippedFiles, reviewedFiles, issueComments, invoked, rejected>>
cliVars == <<cli, loaded, adapter>>
adapterVars == <<parsedResponse>>
deleteVars == <<username, apiReviews, di, attempted>>
restVars == <<apiComments, prVars, cliVars, adapterVars, deleteVars>>
vars == <<pc, mapperVars, dedupVars, fileVars, calls, callLog, textVars, simVars, restVars>>

(***************************************************************************)
(* Characters and strings                                                  *)
(***************************************************************************)
LowerChars ==
    {"a","b","c","d","e","f","g","h","i","j","k","l","m",
     "n","o","p","q","r","s","t","u","v","w","x","y","z"}

UpperChars ==
    {"A","B","C","D","E","F","G","H","I","J","K","L","M",
     "N","O","P","Q","R","S","T","U","V","W","X","Y","Z"}

DigitChars == {"0","1","2","3","4","5","6","7","8","9"}

\* the regular-expression class \w
WordChars == LowerChars \cup UpperChars \cup DigitChars \cup {"_"}

CharAt(s, i) == SubSeq(s, i, i)

\* String.prototype.startsWith
StartsWith(s, p) == Len(s) >= Len(p) /\ SubSeq(s, 1, Len(p)) = p

\* p occurs in s at position i
LitAt(s, i, p) == i + Len(p) - 1 <= Len(s) /\ SubSeq(s, i, i + Len(p) - 1) = p

\* the position after the longest run of characters of class cls that starts at i
RECURSIVE RunEnd(_, _, _)
RunEnd(s, i, cls) ==
    IF i <= Len(s) /\ CharAt(s, i) \in cls THEN RunEnd(s, i + 1, cls) ELSE i

Min(a, b) == IF a <= b THEN a ELSE b
Max(a, b) == IF a >= b THEN a ELSE b
Abs(a) == IF a < 0 THEN -a ELSE a

\* String.prototype.split('\n'): start is where the current piece begins
RECURSIVE SplitFrom(_, _, _)
SplitFrom(s, i, start) ==
    IF i > Len(s) THEN <<SubSeq(s, start, Len(s))>>
    ELSE IF CharAt(s, i) = "\n"
         THEN <<SubSeq(s, start, i - 1)>> \o SplitFrom(s, i + 1, i + 1)
         ELSE SplitFrom(s, i + 1, start)

SplitLines(s) == SplitFrom(s, 1, 1)

\* Array.prototype.join('\n')
RECURSIVE JoinLines(_)
JoinLines(ls) ==
    IF Len(ls) = 0 THEN ""
    ELSE IF Len(ls) = 1 THEN ls[1]
    ELSE ls[1] \o "\n" \o JoinLines(Tail(ls))

DigitVal ==
    ("0" :> 0) @@ ("1" :> 1) @@ ("2" :> 2) @@ ("3" :> 3) @@ ("4" :> 4) @@
    ("5" :> 5) @@ ("6" :> 6) @@ ("7" :> 7) @@ ("8" :> 8) @@ ("9" :> 9)

\* parseInt(s, 10) of a string of decimal digits
RECURSIVE ParseIntAcc(_, _, _)
ParseIntAcc(s, i, acc) ==
    IF i > Len(s) THEN acc ELSE ParseIntAcc(s, i + 1, 10 * acc + DigitVal[CharAt(s, i)])

ParseInt(s) == ParseIntAcc(s, 1, 0)

(***************************************************************************)
(* extractValidCommentLines                                                *)
(***************************************************************************)
\* the value null of currentLine
Null == -1

\* the value undefined of a property that an object lacks
Undefined == -2

\* the optional group (?:,\d+)? tried at position i: the position after it
OptCount(s, i) ==
    IF LitAt(s, i, ",") /\ RunEnd(s, i + 1, DigitChars) > i + 1
    THEN RunEnd(s, i + 1, DigitChars)
    ELSE i

\* /@@ -\d+(?:,\d+)? \+(\d+)(?:,\d+)? @@/ tried at position p: the captured
\* group (\d+) as a pair <<first, last>>, or <<>> when there is no match at p
HeaderMatchAt(s, p) ==
    IF ~LitAt(s, p, "@@ -") THEN <<>>
    ELSE LET a == p + 4
             b == RunEnd(s, a, DigitChars)
             c == OptCount(s, b)
             d == c + 2
             e == RunEnd(s, d, DigitChars)
             f == OptCount(s, e)
         IN  IF b > a /\ LitAt(s, c, " +") /\ e > d /\ LitAt(s, f, " @@")
             THEN <<d, e - 1>>
             ELSE <<>>

\* line.match(...): the leftmost match decides; match[1] or "" when none
HeaderCapture(s) ==
    LET hits == {p \in 1..Len(s) : HeaderMatchAt(s, p) # <<>>}
    IN  IF hits = {} THEN ""
        ELSE LET p == CHOOSE q \in hits : \A r \in hits : q <= r
                 m == HeaderMatchAt(s, p)
             IN  SubSeq(s, m[1], m[2])

IsHunkLine(line) == StartsWith(line, "@@")

IsValidHeader(line) == IsHunkLine(line) /\ HeaderCapture(line) # ""

\* mutation: a removed line is pushed like an added one
ProcessLine_RecordsRemoved(line, cur) ==
    IF IsHunkLine(line)
    THEN [cur  |-> IF HeaderCapture(line) # "" THEN ParseInt(HeaderCapture(line)) ELSE cur,
          push |-> FALSE]
    ELSE IF cur # Null /\ (StartsWith(line, "+") \/ StartsWith(line, " ") \/ StartsWith(line, "-"))
         THEN [cur |-> cur + 1, push |-> TRUE]
         ELSE [cur |-> cur, push |-> FALSE]

\* mutation: a removed line is not pushed but advances the cursor
ProcessLine_RemovedAdvances(line, cur) ==
    IF IsHunkLine(line)
    THEN [cur  |-> IF HeaderCapture(line) # "" THEN ParseInt(HeaderCapture(line)) ELSE cur,
          push |-> FALSE]
    ELSE IF cur # Null /\ (StartsWith(line, "+") \/ StartsWith(line, " "))
         THEN [cur |-> cur + 1, push |-> TRUE]
         ELSE IF cur # Null /\ StartsWith(line, "-")
              THEN [cur |-> cur + 1, push |-> FALSE]
              ELSE [cur |-> cur, push |-> FALSE]

\* mutation: the cursor is not incremented after a push
ProcessLine_NoIncrement(line, cur) ==
    IF IsHunkLine(line)
    THEN [cur  |-> IF HeaderCapture(line) # "" THEN ParseInt(HeaderCapture(line)) ELSE cur,
          push |-> FALSE]
    ELSE IF cur # Null /\ (StartsWith(line, "+") \/ StartsWith(line, " "))
         THEN [cur |-> cur, push |-> TRUE]
         ELSE [cur |-> cur, push |-> FALSE]

\* mutation: every line of a hunk is pushed, whatever its prefix
ProcessLine_PushesAll(line, cur) ==
    IF IsHunkLine(line)
    THEN [cur  |-> IF HeaderCapture(line) # "" THEN ParseInt(HeaderCapture(line)) ELSE cur,
          push |-> FALSE]
    ELSE IF cur # Null
         THEN [cur |-> cur + 1, push |-> TRUE]
         ELSE [cur |-> cur, push |-> FALSE]

\* the body of the for-of loop on one line: the new cursor and whether the
\* line is pushed (at the old cursor)
ProcessLine(line, cur) ==
    IF IsHunkLine(line)
    THEN [cur  |-> IF HeaderCapture(line) # "" THEN ParseInt(HeaderCapture(line)) ELSE cur,
          push |-> FALSE]
    ELSE IF cur # Null /\ (StartsWith(line, "+") \/ StartsWith(line, " "))
         THEN [cur |-> cur + 1, push |-> TRUE]
         ELSE [cur |-> cur, push |-> FALSE]

\* the function with its cursor kept from one call to the next
ExtractBegin_KeepsCursor ==
    /\ pc = "extract"
    /\ IF diff = ""
       THEN /\ pc' = "extracted"
            /\ UNCHANGED lines
       ELSE /\ pc' = "scan"
            /\ lines' = SplitLines(diff)
    /\ li' = 1
    /\ validLines' = <<>>
    /\ origin' = <<>>
    /\ UNCHANGED <<restVars, textVars, simVars, callLog, calls, currentLine, diff, dedupVars, fileVars>>

\* if (!diff) return []; otherwise split and start the loop
ExtractBegin ==
    /\ pc = "extract"
    /\ IF diff = ""
       THEN /\ pc' = "extracted"
            /\ UNCHANGED lines
       ELSE /\ pc' = "scan"
            /\ lines' = SplitLines(diff)
    /\ li' = 1
    /\ currentLine' = Null
    /\ validLines' = <<>>
    /\ origin' = <<>>
    /\ UNCHANGED <<restVars, textVars, simVars, callLog, calls, diff, dedupVars, fileVars>>

\* one iteration of for (const line of lines)
ScanLine ==
    /\ pc = "scan"
    /\ li <= Len(lines)
    /\ LET r == ProcessLine(lines[li], currentLine)
       IN  /\ currentLine' = r.cur
           /\ validLines' = IF r.push THEN Append(validLines, currentLine) ELSE validLines
           /\ origin' = IF r.push THEN Append(origin, li) ELSE origin
    /\ li' = li + 1
    /\ UNCHANGED <<restVars, textVars, simVars, callLog, calls, pc, diff, lines, dedupVars, fileVars>>

\* return validLines
ExtractReturn ==
    /\ pc = "scan"
    /\ li > Len(lines)
    /\ pc' = "extracted"
    /\ UNCHANGED <<restVars, textVars, simVars, callLog, calls, mapperVars, dedupVars, fileVars>>

(***************************************************************************)
(* Text utilities of the deduplicator                                      *)
(***************************************************************************)
LetterChars == LowerChars \cup UpperChars

\* The grave accent (U+0060), the delimiter of a code span, cannot be written
\* in a TLA+ string: the texts of the model write it as the apostrophe, which
\* none of them holds in a role of its own.
Backtick == "'"

\* the regular-expression class \s (the members that a comment body can hold)
SpaceChars == {" ", "\t", "\n", "\r", "\f"}

ToLowerChar ==
    ("A" :> "a") @@ ("B" :> "b") @@ ("C" :> "c") @@ ("D" :> "d") @@ ("E" :> "e") @@
    ("F" :> "f") @@ ("G" :> "g") @@ ("H" :> "h") @@ ("I" :> "i") @@ ("J" :> "j") @@
    ("K" :> "k") @@ ("L" :> "l") @@ ("M" :> "m") @@ ("N" :> "n") @@ ("O" :> "o") @@
    ("P" :> "p") @@ ("Q" :> "q") @@ ("R" :> "r") @@ ("S" :> "s") @@ ("T" :> "t") @@
    ("U" :> "u") @@ ("V" :> "v") @@ ("W" :> "w") @@ ("X" :> "x") @@ ("Y" :> "y") @@
    ("Z" :> "z")

\* String.prototype.toLowerCase
RECURSIVE ToLowerFrom(_, _)
ToLowerFrom(s, i) ==
    IF i > Len(s) THEN ""
    ELSE (IF CharAt(s, i) \in UpperChars THEN ToLowerChar[CharAt(s, i)] ELSE CharAt(s, i))
            \o ToLowerFrom(s, i + 1)

ToLower(s) == ToLowerFrom(s, 1)

\* every character of s from position i on is of class cls
AllIn(s, i, cls) == \A j \in i..Len(s) : CharAt(s, j) \in cls

\* String.prototype.includes
Includes(s, p) == \E i \in 1..(Len(s) - Len(p) + 1) : LitAt(s, i, p)

\* \b holds before position i when position i holds a word character
WordStartsAt(s, i) ==
    /\ i <= Len(s)
    /\ CharAt(s, i) \in WordChars
    /\ i = 1 \/ CharAt(s, i - 1) \notin WordChars

CommonWords ==
    {"the", "if", "on", "in", "at", "by", "for", "with",
     "about", "against", "between", "into", "through", "during", "before", "after",
     "above", "below", "from", "up", "down", "may", "will", "can",
     "must", "should", "could", "would", "might", "every", "some", "other",
     "such", "only", "then", "than", "when", "been", "this", "that",
     "these", "those", "their", "has", "have", "had", "not", "and",
     "but", "or", "as", "what", "all"}

CodeKeywords ==
    {"function", "return", "if", "else", "for", "while", "break", "continue",
     "class", "interface", "extends", "implements", "import", "export", "try", "catch",
     "finally", "throw", "async", "await", "new", "this", "const", "let",
     "var", "void", "null", "undefined", "true", "false", "public", "private",
     "protected", "static", "final", "abstract", "default", "delete", "instanceof", "typeof",
     "yield", "get", "set", "in", "of", "switch", "case", "super",
     "with"}

CodeRelatedTerms ==
    {"async", "await", "sync", "function", "method", "class", "object", "variable",
     "const", "let", "var", "import", "export", "return", "parameter", "argument",
     "callback", "promise", "error", "exception", "null", "undefined", "boolean", "string",
     "number", "array", "json", "memory", "leak", "performance", "security", "vulnerability",
     "injection", "validation", "sanitize", "request", "response", "api", "database", "query",
     "sql", "http", "token", "authentication", "authorization", "upload", "download", "file",
     "stream", "buffer", "parse", "serialize"}

isCommonWord(word) == ToLower(word) \in CommonWords

isCodeKeyword(word) == ToLower(word) \in CodeKeywords

isCodeRelatedTerm(word) ==
    \/ word \in CodeRelatedTerms
    \/ Includes(word, "error")
    \/ Includes(word, "bug")
    \/ Includes(word, "fix")
    \/ Includes(word, "issue")

\* the callback of the first replace of extractCommentTemplate, on one match
ClassifyToken(match) ==
    IF isCommonWord(match) THEN match
    ELSE IF isCodeKeyword(match) THEN match
    \* /^[a-z][a-zA-Z0-9_]*$/
    ELSE IF CharAt(match, 1) \in LowerChars /\ AllIn(match, 2, WordChars) THEN "{var}"
    \* /^[A-Z][a-zA-Z0-9_]*$/
    ELSE IF CharAt(match, 1) \in UpperChars /\ AllIn(match, 2, WordChars) THEN "{Class}"
    \* /^[a-z][a-z0-9_]*_[a-z0-9_]+$/
    ELSE IF /\ CharAt(match, 1) \in LowerChars
            /\ AllIn(match, 2, LowerChars \cup DigitChars \cup {"_"})
            /\ \E u \in 2..(Len(match) - 1) : CharAt(match, u) = "_"
         THEN "{snake_var}"
    \* /^[A-Z][A-Z0-9_]*$/
    ELSE IF CharAt(match, 1) \in UpperChars /\ AllIn(match, 2, UpperChars \cup DigitChars \cup {"_"})
         THEN "{CONST}"
    ELSE match

\* template.replace(/\b[a-zA-Z][a-zA-Z0-9_]*\b/g, callback), from position i
RECURSIVE ReplaceIdentifiers(_, _)
ReplaceIdentifiers(s, i) ==
    IF i > Len(s) THEN ""
    ELSE IF WordStartsAt(s, i) /\ CharAt(s, i) \in LetterChars
         THEN LET e == RunEnd(s, i, WordChars)
              IN  ClassifyToken(SubSeq(s, i, e - 1)) \o ReplaceIdentifiers(s, e)
         ELSE CharAt(s, i) \o ReplaceIdentifiers(s, i + 1)

\* template.replace(/(json\.loads on )([A-Z][A-Z0-9_]*)/, '$1{ENV_VAR}'): the
\* leftmost match only
ReplaceEnvVar(s) ==
    LET hits == {p \in 1..Len(s) :
                    LitAt(s, p, "json.loads on ") /\ p + 14 <= Len(s)
                        /\ CharAt(s, p + 14) \in UpperChars}
    IN  IF hits = {} THEN s
        ELSE LET p == CHOOSE q \in hits : \A r \in hits : q <= r
                 e == RunEnd(s, p + 15, UpperChars \cup DigitChars \cup {"_"})
             IN  SubSeq(s, 1, p + 13) \o "{ENV_VAR}" \o SubSeq(s, e, Len(s))

\* template.replace(/(\.\s*)([a-zA-Z][a-zA-Z0-9_]*)(\s*\()/g, '$1{method}$3'),
\* from position i
RECURSIVE ReplaceMethodCalls(_, _)
ReplaceMethodCalls(s, i) ==
    IF i > Len(s) THEN ""
    ELSE LET a == RunEnd(s, i + 1, SpaceChars)
             b == RunEnd(s, a, WordChars)
             c == RunEnd(s, b, SpaceChars)
         IN  IF /\ CharAt(s, i) = "."
                /\ a <= Len(s) /\ CharAt(s, a) \in LetterChars
                /\ LitAt(s, c, "(")
             THEN SubSeq(s, i, a - 1) \o "{method}" \o SubSeq(s, b, c)
                      \o ReplaceMethodCalls(s, c + 1)
             ELSE CharAt(s, i) \o ReplaceMethodCalls(s, i + 1)

extractCommentTemplate(comment) ==
    ReplaceMethodCalls(ReplaceEnvVar(ReplaceIdentifiers(comment, 1)), 1)

RECURSIVE WordRuns(_, _)

\* the split keeping only the words longer than three characters
WordRuns_LongerThanThree(s, i) ==
    IF i > Len(s) THEN <<>>
    ELSE IF CharAt(s, i) \in WordChars
         THEN LET e == RunEnd(s, i, WordChars)
              IN  (IF e - i > 3 THEN <<SubSeq(s, i, e - 1)>> ELSE <<>>) \o WordRuns(s, e)
         ELSE WordRuns(s, i + 1)

\* normalizedText.split(/\W+/).filter(w => w.length > 2): the maximal runs of
\* word characters longer than two, as a sequence
WordRuns(s, i) ==
    IF i > Len(s) THEN <<>>
    ELSE IF CharAt(s, i) \in WordChars
         THEN LET e == RunEnd(s, i, WordChars)
              IN  (IF e - i > 2 THEN <<SubSeq(s, i, e - 1)>> ELSE <<>>) \o WordRuns(s, e)
         ELSE WordRuns(s, i + 1)

\* the end of the match of
\*   /B[^B]+B|\b[a-zA-Z0-9_]+\(\)|\b[A-Z][a-zA-Z0-9_]+|[a-z][a-zA-Z0-9_]+\.[a-z][a-zA-Z0-9_]+/
\* (B the grave accent) tried at position i (the alternatives in their order), 0 when none matches
CodeElementEnd(s, i) ==
    LET tick == RunEnd(s, i + 1, {CharAt(s, k) : k \in 1..Len(s)} \ {Backtick})
        run  == RunEnd(s, i, WordChars)
        rest == RunEnd(s, i + 1, WordChars)
        mem  == RunEnd(s, rest + 2, WordChars)
    IN  IF CharAt(s, i) = Backtick /\ tick > i + 1 /\ tick <= Len(s) THEN tick
        ELSE IF WordStartsAt(s, i) /\ LitAt(s, run, "()") THEN run + 1
        ELSE IF WordStartsAt(s, i) /\ CharAt(s, i) \in UpperChars /\ rest > i + 1 THEN rest - 1
        ELSE IF /\ CharAt(s, i) \in LowerChars /\ rest > i + 1
                /\ LitAt(s, rest, ".")
                /\ rest + 1 <= Len(s) /\ CharAt(s, rest + 1) \in LowerChars
                /\ mem > rest + 2
             THEN mem - 1
        ELSE 0

\* commentText.match(.../g): the matches from position i on, left to right
RECURSIVE CodeElements(_, _)
CodeElements(s, i) ==
    IF i > Len(s) THEN <<>>
    ELSE LET e == CodeElementEnd(s, i)
         IN  IF e = 0 THEN CodeElements(s, i + 1)
             ELSE <<SubSeq(s, i, e)>> \o CodeElements(s, e + 1)

\* s.replace(/B/g, ''), B the grave accent
RECURSIVE StripBackticks(_, _)
StripBackticks(s, i) ==
    IF i > Len(s) THEN ""
    ELSE (IF CharAt(s, i) = Backtick THEN "" ELSE CharAt(s, i)) \o StripBackticks(s, i + 1)

SeqRange(q) == {q[k] : k \in 1..Len(q)}

\* words.filter(word => isCodeRelatedTerm(word)), as the set of its elements
technicalTerms(commentText) ==
    {w \in SeqRange(WordRuns(ToLower(commentText), 1)) : isCodeRelatedTerm(w)}

\* [...new Set([...codeElements, ...technicalTerms])]: an array without
\* repeats, kept as the set of its elements
extractKeywordsFromComment(commentText) ==
    LET codeElements == {ToLower(StripBackticks(m, 1)) : m \in SeqRange(CodeElements(commentText, 1))}
    IN  codeElements \cup technicalTerms(commentText)

\* a score is a fraction [num, den]; x > t/u is decided exactly
Exceeds(score, t, u) == score.num * u > t * score.den

\* the overlap with two empty lists counted as full
calculateKeywordOverlap_EmptiesAgree(keywords1, keywords2) ==
    IF keywords1 = {} /\ keywords2 = {} THEN [num |-> 1, den |-> 1]
    ELSE IF keywords1 = {} \/ keywords2 = {} THEN [num |-> 0, den |-> 1]
    ELSE [num |-> Cardinality(keywords1 \cap keywords2),
          den |-> Cardinality(keywords1 \cup keywords2)]

\* matchingKeywords.length / union, 0 when a list is empty
calculateKeywordOverlap(keywords1, keywords2) ==
    IF keywords1 = {} \/ keywords2 = {} THEN [num |-> 0, den |-> 1]
    ELSE [num |-> Cardinality(keywords1 \cap keywords2),
          den |-> Cardinality(keywords1 \cup keywords2)]

\* the characters that normalize replaces by a space
PunctuationChars ==
    {".", ",", "/", "#", "!", "$", "%", "^", "&", "*", ";", ":", "{", "}",
     "=", "-", "_", Backtick, "~", "(", ")"}

RECURSIVE ReplacePunctuation(_, _)
ReplacePunctuation(s, i) ==
    IF i > Len(s) THEN ""
    ELSE (IF CharAt(s, i) \in PunctuationChars THEN " " ELSE CharAt(s, i))
            \o ReplacePunctuation(s, i + 1)

\* String.prototype.trim
Trim(s) ==
    LET keep == {i \in 1..Len(s) : CharAt(s, i) \notin SpaceChars}
    IN  IF keep = {} THEN ""
        ELSE SubSeq(s, CHOOSE a \in keep : \A b \in keep : a <= b,
                       CHOOSE a \in keep : \A b \in keep : a >= b)

\* normalize of stringSimilarity
Normalize(str) == Trim(ReplacePunctuation(ToLower(str), 1))

\* str.split(/\s+/).filter(w => w.length > 2)
RECURSIVE LongWords(_, _)
LongWords(s, i) ==
    IF i > Len(s) THEN <<>>
    ELSE IF CharAt(s, i) \notin SpaceChars
         THEN LET e == RunEnd(s, i, {CharAt(s, k) : k \in 1..Len(s)} \ SpaceChars)
              IN  (IF e - i > 2 THEN <<SubSeq(s, i, e - 1)>> ELSE <<>>) \o LongWords(s, e)
         ELSE LongWords(s, i + 1)

wordBasedSimilarity(str1, str2) ==
    LET words1 == LongWords(str1, 1)
        words2 == LongWords(str2, 1)
        sharedWords == {k \in 1..Len(words1) : words1[k] \in SeqRange(words2)}
    IN  IF Len(words1) = 0 \/ Len(words2) = 0 THEN [num |-> 0, den |-> 1]
        ELSE [num |-> 2 * Cardinality(sharedWords), den |-> Len(words1) + Len(words2)]

Min3(a, b, c) == Min(a, Min(b, c))

\* row i of the matrix dp from row i - 1 (prev); row[j + 1] is dp[i][j], and
\* the row built so far holds dp[i][0..Len(row) - 1]
RECURSIVE LevRow(_, _, _, _)
LevRow(ch, str2, prev, row) ==
    IF Len(row) > Len(str2) THEN row
    ELSE LET j == Len(row)
             cost == IF ch = CharAt(str2, j) THEN 0 ELSE 1
         IN  LevRow(ch, str2, prev,
                    Append(row, Min3(prev[j + 1] + 1, row[j] + 1, prev[j] + cost)))

\* the rows after prev, which is row prev[1] (dp[i][0] = i); the result is dp[m][n]
RECURSIVE LevRows(_, _, _)
LevRows(str1, str2, prev) ==
    IF prev[1] >= Len(str1) THEN prev[Len(str2) + 1]
    ELSE LevRows(str1, str2, LevRow(CharAt(str1, prev[1] + 1), str2, prev, <<prev[1] + 1>>))

levenshteinDistance(str1, str2) ==
    LevRows(str1, str2, [j \in 1..(Len(str2) + 1) |-> j - 1])

\* the length gap above which stringSimilarity compares words
LengthGap == 20

\* stringSimilarity with the gap taken between the bodies as passed
stringSimilarity_RawGap(str1, str2) ==
    LET s1 == Normalize(str1)
        s2 == Normalize(str2)
        maxLength == Max(Len(s1), Len(s2))
    IN  IF Abs(Len(str1) - Len(str2)) > LengthGap THEN wordBasedSimilarity(s1, s2)
        ELSE IF maxLength = 0 THEN [num |-> 1, den |-> 1]
        ELSE [num |-> maxLength - levenshteinDistance(s1, s2), den |-> maxLength]

stringSimilarity(str1, str2) ==
    LET s1 == Normalize(str1)
        s2 == Normalize(str2)
        maxLength == Max(Len(s1), Len(s2))
    IN  IF Abs(Len(s1) - Len(s2)) > LengthGap THEN wordBasedSimilarity(s1, s2)
        ELSE IF maxLength = 0 THEN [num |-> 1, den |-> 1]
        ELSE [num |-> maxLength - levenshteinDistance(s1, s2), den |-> maxLength]

(***************************************************************************)
(* isDuplicateComment                                                      *)
(***************************************************************************)
\* the default of the parameter lineProximity
DefaultLineProximity == 5

\* the thresholds of the final test, as fractions
KeywordThreshold == [num |-> 1, den |-> 2]
TextThreshold == [num |-> 6, den |-> 10]
TemplateThreshold == [num |-> 85, den |-> 100]

\* the four measures taken of a candidate body against an existing body
CompareBodies(newBody, existingBody) ==
    LET newCommentTemplate == extractCommentTemplate(newBody)
        existingCommentTemplate == extractCommentTemplate(existingBody)
    IN  [templateMatch |-> existingCommentTemplate = newCommentTemplate,
         keywordOverlap |->
             calculateKeywordOverlap(extractKeywordsFromComment(newBody),
                                     extractKeywordsFromComment(existingBody)),
         textSimilarity |-> stringSimilarity(newBody, existingBody),
         templateSimilarity |-> stringSimilarity(newCommentTemplate, existingCommentTemplate)]

\* the texts of the model's comments
BodyPool ==
    { "",
      "Unused variable 'fooBar' should be removed.",
      "Unused variable 'bazQux' should be removed.",
      "12345", "12995", "12945",
      "aaaa bbbb 1", "cccc dddd 2",
      "aaa bbb ccc 123", "ddd eee fff 456",
      "'x1' 111111", "'x1' 999999", "'x1' 'y2' 9999" }

\* CompareBodies is a pure function of the two texts: the table of its values
\* on the pairs S of the model's texts, evaluated once (@@ builds the table)
TabulateMeasures(S) ==
    [p \in S |-> CompareBodies(p[1], p[2])] @@ <<>>

Measures == TabulateMeasures(BodyPool \X BodyPool)

\* the proximity test moved one line out
TooFarApart_OneLineLate(existingLine, newLine, lineProximity) ==
    Abs(existingLine - newLine) > lineProximity + 1

\* if (lineDiff > lineProximity) continue, with lineDiff =
\* Math.abs(existingComment.line - newComment.line): null counts as 0, and
\* with undefined lineDiff is NaN, which is greater than nothing
TooFarApart(existingLine, newLine, lineProximity) ==
    IF existingLine = Undefined THEN FALSE
    ELSE Abs((IF existingLine = Null THEN 0 ELSE existingLine) - newLine) > lineProximity

\* the final test with scores at their thresholds accepted
IsMatch_AtThreshold(m) ==
    \/ m.templateMatch
    \/ m.keywordOverlap.num * KeywordThreshold.den
          >= KeywordThreshold.num * m.keywordOverlap.den
    \/ m.textSimilarity.num * TextThreshold.den
          >= TextThreshold.num * m.textSimilarity.den
    \/ m.templateSimilarity.num * TemplateThreshold.den
          >= TemplateThreshold.num * m.templateSimilarity.den

\* the two tests that return true, on the measures of one existing comment
IsMatch(m) ==
    \/ m.templateMatch
    \/ Exceeds(m.keywordOverlap, KeywordThreshold.num, KeywordThreshold.den)
    \/ Exceeds(m.textSimilarity, TextThreshold.num, TextThreshold.den)
    \/ Exceeds(m.templateSimilarity, TemplateThreshold.num, TemplateThreshold.den)

RECURSIVE DuplicateFrom(_, _, _, _)

\* the loop with the first compared comment deciding the result
DuplicateFrom_FirstNearDecides(candidate, existing, lineProximity, k) ==
    IF k > Len(existing) THEN FALSE
    ELSE IF TooFarApart(existing[k].line, candidate.line, lineProximity)
         THEN DuplicateFrom(candidate, existing, lineProximity, k + 1)
    ELSE IsMatch(Measures[<<candidate.body, existing[k].body>>])

\* the loop with the final return turned into return true
DuplicateFrom_EndsTrue(candidate, existing, lineProximity, k) ==
    IF k > Len(existing) THEN TRUE
    ELSE IF TooFarApart(existing[k].line, candidate.line, lineProximity)
         THEN DuplicateFrom(candidate, existing, lineProximity, k + 1)
    ELSE IF IsMatch(Measures[<<candidate.body, existing[k].body>>]) THEN TRUE
    ELSE DuplicateFrom(candidate, existing, lineProximity, k + 1)

\* the for-of loop over existingComments from index k on, and the final return false
DuplicateFrom(candidate, existing, lineProximity, k) ==
    IF k > Len(existing) THEN FALSE
    ELSE IF TooFarApart(existing[k].line, candidate.line, lineProximity)
         THEN DuplicateFrom(candidate, existing, lineProximity, k + 1)
    ELSE IF IsMatch(Measures[<<candidate.body, existing[k].body>>]) THEN TRUE
    ELSE DuplicateFrom(candidate, existing, lineProximity, k + 1)

isDuplicateComment(candidate, existing, lineProximity) ==
    DuplicateFrom(candidate, existing, lineProximity, 1)

\* A body that is not a string (null, undefined, a number, an object) is kept
\* as a text that no comment holds.
NotAString == "<not a string>"

\* the loop from index k on reaches extractCommentTemplate(existingComment.body)
\* with a body that has no method replace, before it returns
RECURSIVE ThrowsFrom(_, _, _, _)
ThrowsFrom(candidate, existing, lineProximity, k) ==
    IF k > Len(existing) THEN FALSE
    ELSE IF TooFarApart(existing[k].line, candidate.line, lineProximity)
         THEN ThrowsFrom(candidate, existing, lineProximity, k + 1)
    ELSE IF existing[k].body = NotAString THEN TRUE
    ELSE IF IsMatch(Measures[<<candidate.body, existing[k].body>>]) THEN FALSE
    ELSE ThrowsFrom(candidate, existing, lineProximity, k + 1)

\* isDuplicateComment throws a TypeError: at commentText.toLowerCase() for
\* the candidate's body, before the loop, or inside the loop
Throws(candidate, existing, lineProximity) ==
    \/ candidate.body = NotAString
    \/ ThrowsFrom(candidate, existing, lineProximity, 1)

\* no comment yet
NoComment == [line |-> 0, body |-> ""]

\* a call isDuplicateComment(newComment, existingComments)
CallIsDuplicate ==
    /\ pc = "dedup"
    /\ IF Throws(newComment, existingComments, DefaultLineProximity)
       THEN thrown' = "TypeError" /\ UNCHANGED isDuplicate
       ELSE /\ thrown' = ""
            /\ isDuplicate' =
                  isDuplicateComment(newComment, existingComments, DefaultLineProximity)
    /\ pc' = "deduped"
    /\ UNCHANGED <<restVars, textVars, simVars, callLog, calls, mapperVars, newComment, existingComments, fileVars>>

(***************************************************************************)
(* getExistingComments                                                     *)
(***************************************************************************)
\* comment.line || comment.original_line
LineOrOriginal(comment) ==
    IF comment.line \notin {Null, Undefined, 0} THEN comment.line ELSE comment.original_line

\* comments.filter(comment => comment.path === path).map(comment => ({id, line, body, user}))
getExistingComments(comments, path) ==
    LET ofFile == SelectSeq(comments, LAMBDA comment : comment.path = path)
    IN  [k \in 1..Len(ofFile) |-> [line |-> LineOrOriginal(ofFile[k]), body |-> ofFile[k].body]]

\* existingComments = await getExistingComments({..., path: file.filename}),
\* called on its own
FetchExistingComments ==
    /\ pc = "getExistingComments"
    /\ existingComments' = getExistingComments(apiComments, file.filename)
    /\ pc' = "dedup"
    /\ UNCHANGED <<prVars, apiComments, cliVars, adapterVars, deleteVars, textVars, simVars, callLog, calls, mapperVars, newComment, isDuplicate, thrown, fileVars>>

(***************************************************************************)
(* reviewFile                                                              *)
(***************************************************************************)
\* the number of diff lines above which a file is not reviewed
MaxReviewLines == 1000

\* diff.split('\n').length
LineCount(s) == Cardinality({i \in 1..Len(s) : CharAt(s, i) = "\n"}) + 1

\* formatComment(comment, config)
formatComment(comment, cfg) ==
    IF cfg.commentPrefix # "" THEN cfg.commentPrefix \o " " \o comment ELSE comment

\* the callback without its test of the line
KeepComment_SkipsLineCheck(comment, validCommentLines, existing) ==
    IF Throws(comment, existing, DefaultLineProximity)
    THEN [keep |-> FALSE, called |-> TRUE, thrown |-> TRUE]
    ELSE [keep |-> ~isDuplicateComment(comment, existing, DefaultLineProximity),
          called |-> TRUE, thrown |-> FALSE]

\* the callback of reviewComments.filter on one comment: whether it is kept,
\* whether isDuplicateComment was called on it, and whether that call threw
KeepComment(comment, validCommentLines, existing) ==
    IF comment.line \notin SeqRange(validCommentLines)
    THEN [keep |-> FALSE, called |-> FALSE, thrown |-> FALSE]
    ELSE IF Throws(comment, existing, DefaultLineProximity)
    THEN [keep |-> FALSE, called |-> TRUE, thrown |-> TRUE]
    ELSE [keep |-> ~isDuplicateComment(comment, existing, DefaultLineProximity),
          called |-> TRUE, thrown |-> FALSE]

\* validComments.map(comment => ({path, body: formatComment(...), line, side}))
FormatComments(comments, cfg) ==
    [k \in 1..Len(comments) |->
        [line |-> comments[k].line, body |-> formatComment(comments[k].body, cfg),
         side |-> "RIGHT"]]

\* the catch block of reviewFile: the error is logged, the function returns
Caught(message) ==
    /\ errors' = Append(errors, message)
    /\ pc' = "returned"

\* if (file.status === 'removed' || file.binary) return
SkipRemovedOrBinary ==
    /\ pc = "reviewFile"
    /\ pc' = IF file.status = "removed" \/ file.binary THEN "returned" ELSE "getDiff"
    /\ UNCHANGED <<restVars, textVars, simVars, callLog, calls, mapperVars, dedupVars, fileVars>>

\* diff = await getDiff(...): the patch of the file, or '' when it cannot be fetched
GetDiff(patch) ==
    /\ pc = "getDiff"
    /\ calls' = calls \o <<"getDiff">>
    /\ diff' = patch
    /\ pc' = "checkDiff"
    /\ UNCHANGED <<restVars, textVars, simVars, callLog, lines, li, currentLine, validLines, origin, dedupVars, fileVars>>

\* the tests on the diff: nothing to review, or too many lines (an Error is
\* thrown inside the try block, so reviewFile's own catch takes it)
CheckDiff ==
    /\ pc = "checkDiff"
    /\ IF diff = "" \/ Trim(diff) = ""
       THEN pc' = "returned" /\ UNCHANGED errors
       ELSE IF LineCount(diff) > MaxReviewLines
            THEN Caught("File too large to review")
            ELSE pc' = "extract" /\ UNCHANGED errors
    /\ UNCHANGED <<restVars, textVars, simVars, callLog, calls, mapperVars, dedupVars, file, config, reviewComments, fi,
                   validComments, posted, dupCalls>>

\* the review going on without the test of validCommentLines.length
CheckValidLines_GoesOn ==
    /\ pc = "extracted"
    /\ pc' = "getExisting"
    /\ UNCHANGED <<restVars, textVars, simVars, callLog, calls, mapperVars, dedupVars, fileVars>>

\* if (validCommentLines.length === 0) return
CheckValidLines ==
    /\ pc = "extracted"
    /\ pc' = IF Len(validLines) = 0 THEN "returned" ELSE "getExisting"
    /\ UNCHANGED <<restVars, textVars, simVars, callLog, calls, mapperVars, dedupVars, fileVars>>

\* existingComments = await getExistingComments(...)
GetExistingComments(found) ==
    /\ pc = "getExisting"
    /\ calls' = calls \o <<"getExistingComments">>
    /\ existingComments' = found
    /\ pc' = "reviewCode"
    /\ UNCHANGED <<restVars, textVars, simVars, callLog, mapperVars, newComment, isDuplicate, thrown, fileVars>>

\* getExistingComments rejects
GetExistingCommentsFails ==
    /\ pc = "getExisting"
    /\ calls' = calls \o <<"getExistingComments">>
    /\ Caught("listReviewComments failed")
    /\ UNCHANGED <<restVars, textVars, simVars, callLog, mapperVars, dedupVars, file, config, reviewComments, fi,
                   validComments, posted, dupCalls>>

\* fileContent = await getFileContent(...) (which returns '' on failure), then
\* reviewComments = await modelAdapter.reviewCode({filename, diff, fileContent})
ReviewCode(comments) ==
    /\ pc = "reviewCode"
    /\ calls' = calls \o <<"getFileContent", "reviewCode">>
    /\ reviewComments' = comments
    /\ fi' = 1
    /\ validComments' = <<>>
    /\ pc' = "filter"
    /\ UNCHANGED <<restVars, textVars, simVars, callLog, mapperVars, dedupVars, file, config, posted, errors, dupCalls>>

\* modelAdapter.reviewCode rejects
ReviewCodeFails ==
    /\ pc = "reviewCode"
    /\ calls' = calls \o <<"getFileContent", "reviewCode">>
    /\ Caught("reviewCode failed")
    /\ UNCHANGED <<restVars, textVars, simVars, callLog, mapperVars, dedupVars, file, config, reviewComments, fi,
                   validComments, posted, dupCalls>>

\* one call of the callback of reviewComments.filter; an error thrown by
\* isDuplicateComment ends the filter and is taken by the catch block
FilterComment ==
    /\ pc = "filter"
    /\ fi <= Len(reviewComments)
    /\ LET r == KeepComment(reviewComments[fi], validLines, existingComments)
       IN  /\ validComments' =
                 IF r.keep THEN Append(validComments, reviewComments[fi]) ELSE validComments
           /\ dupCalls' =
                 IF r.called THEN Append(dupCalls, reviewComments[fi]) ELSE dupCalls
           /\ IF r.thrown THEN Caught("TypeError") ELSE UNCHANGED <<pc, errors>>
    /\ fi' = fi + 1
    /\ UNCHANGED <<restVars, textVars, simVars, callLog, calls, mapperVars, dedupVars, file, config, reviewComments, posted>>

\* filter is done: with nothing kept reviewFile returns
FilterDone ==
    /\ pc = "filter"
    /\ fi > Len(reviewComments)
    /\ pc' = IF Len(validComments) > 0 THEN "createReview" ELSE "returned"
    /\ UNCHANGED <<restVars, textVars, simVars, callLog, calls, mapperVars, dedupVars, fileVars>>

\* await createBatchReviewComments({..., comments: formattedComments})
CreateBatchReviewComments ==
    /\ pc = "createReview"
    /\ calls' = calls \o <<"createReview">>
    /\ posted' = Append(posted, FormatComments(validComments, config))
    /\ pc' = "returned"
    /\ UNCHANGED <<restVars, textVars, simVars, callLog, mapperVars, dedupVars, file, config, reviewComments, fi,
                   validComments, errors, dupCalls>>

\* createBatchReviewComments is called and rethrows what the API call threw
CreateBatchReviewCommentsFails ==
    /\ pc = "createReview"
    /\ calls' = calls \o <<"createReview">>
    /\ posted' = Append(posted, FormatComments(validComments, config))
    /\ Caught("createReview failed")
    /\ UNCHANGED <<restVars, textVars, simVars, callLog, mapperVars, dedupVars, file, config, reviewComments, fi,
                   validComments, dupCalls>>

(***************************************************************************)
(* reviewPullRequest                                                       *)
(***************************************************************************)
\* new RegExp(pattern).test(filename), for the patterns of the default
\* configuration
Test(pattern, filename) ==
    LET EndsWith(p) == Len(filename) >= Len(p) /\ LitAt(filename, Len(filename) - Len(p) + 1, p)
        Holds(p) == \E i \in 1..Len(filename) : LitAt(filename, i, p)
    IN  CASE pattern = ".*" -> TRUE
          [] pattern = ".*\\.md$" -> EndsWith(".md")
          [] pattern = ".*\\.lock$" -> EndsWith(".lock")
          [] pattern = "package-lock\\.json$" -> EndsWith("package-lock.json")
          [] pattern = "yarn\\.lock$" -> EndsWith("yarn.lock")
          [] pattern = "\\.gitignore$" -> EndsWith(".gitignore")
          [] pattern = "\\.env.*" -> Holds(".env")

\* filterFilesToReview(files, config); fileFilters is an object, so its
\* length is undefined and the early return is taken only without fileFilters
filterFilesToReview(fs, cfg) ==
    SelectSeq(fs, LAMBDA f :
        /\ \E k \in 1..Len(cfg.fileFilters.include) : Test(cfg.fileFilters.include[k], f.filename)
        /\ ~\E k \in 1..Len(cfg.fileFilters.exclude) : Test(cfg.fileFilters.exclude[k], f.filename))

\* pulls.get and pulls.listFiles answer; the loop starts
ListFiles(found) ==
    /\ pc = "reviewPullRequest"
    /\ files' = found
    /\ nextFile' = 1
    /\ skippedFiles' = <<>>
    /\ reviewedFiles' = 0
    /\ pc' = "forFiles"
    /\ UNCHANGED <<issueComments, invoked, rejected, apiComments, cliVars, adapterVars, deleteVars, textVars, simVars, callLog, calls,
                   mapperVars, dedupVars, fileVars>>

\* pulls.get or pulls.listFiles rejects: the outer catch rethrows
ListFilesFails ==
    /\ pc = "reviewPullRequest"
    /\ rejected' = "listFiles failed"
    /\ pc' = "rejected"
    /\ UNCHANGED <<files, nextFile, skippedFiles, reviewedFiles, issueComments, invoked, apiComments, cliVars, adapterVars, deleteVars,
                   textVars, simVars, callLog, calls, mapperVars, dedupVars, fileVars>>

\* for (const file of files): await reviewFile({..., file, modelAdapter, config}),
\* a call with locals of its own
CallReviewFile ==
    /\ pc = "forFiles"
    /\ nextFile <= Len(files)
    /\ file' = files[nextFile]
    /\ invoked' = Append(invoked, files[nextFile])
    /\ diff' = ""
    /\ lines' = <<>>
    /\ li' = 1
    /\ currentLine' = Null
    /\ validLines' = <<>>
    /\ origin' = <<>>
    /\ existingComments' = <<>>
    /\ reviewComments' = <<>>
    /\ fi' = 1
    /\ validComments' = <<>>
    /\ pc' = "reviewFile"
    /\ UNCHANGED <<files, nextFile, skippedFiles, reviewedFiles, issueComments, rejected, apiComments, cliVars, adapterVars, deleteVars,
                   textVars, simVars, callLog, calls, newComment, isDuplicate, thrown,
                   config, posted, errors, dupCalls>>

\* the loop with a file that failed ending it
ReviewFileSettles_BreaksOnError ==
    /\ pc \in {"returned", "threw"}
    /\ rejected = ""
    /\ nextFile <= Len(files)
    /\ reviewedFiles' = reviewedFiles + 1
    /\ nextFile' = IF errors # <<>> THEN Len(files) + 1 ELSE nextFile + 1
    /\ pc' = "forFiles"
    /\ UNCHANGED <<files, skippedFiles, issueComments, invoked, rejected, apiComments, cliVars, adapterVars, deleteVars, textVars, simVars,
                   callLog, calls, mapperVars, dedupVars, fileVars>>

\* the call of reviewFile settles: reviewedFiles++ when it returned, the
\* catch block of the loop when it threw (pc = "threw", the error the last
\* of errors), and the loop goes on
ReviewFileSettles ==
    /\ pc \in {"returned", "threw"}
    /\ rejected = ""
    /\ nextFile <= Len(files)
    /\ IF pc = "returned"
       THEN reviewedFiles' = reviewedFiles + 1 /\ UNCHANGED skippedFiles
       ELSE /\ UNCHANGED reviewedFiles
            /\ skippedFiles' =
                  IF errors[Len(errors)] = "File too large to review"
                  THEN Append(skippedFiles, [filename |-> file.filename,
                                             reason |-> "Too many changes (>1000 lines)"])
                  ELSE skippedFiles
    /\ nextFile' = nextFile + 1
    /\ pc' = "forFiles"
    /\ UNCHANGED <<files, issueComments, invoked, rejected, apiComments, cliVars, adapterVars, deleteVars, textVars, simVars,
                   callLog, calls, mapperVars, dedupVars, fileVars>>

\* after the loop: the comment 'AI Code Review Summary' when files were
\* skipped; issues.createComment rejecting makes reviewPullRequest reject
PostSkippedSummary(ok) ==
    /\ pc = "forFiles"
    /\ nextFile > Len(files)
    /\ IF skippedFiles = <<>>
       THEN pc' = "addSummaryComment" /\ UNCHANGED <<issueComments, rejected>>
       ELSE IF ok
       THEN /\ issueComments' =
                  Append(issueComments, [title |-> "AI Code Review Summary",
                                         reviewed |-> reviewedFiles, skipped |-> skippedFiles])
            /\ pc' = "addSummaryComment"
            /\ UNCHANGED rejected
       ELSE /\ rejected' = "createComment failed"
            /\ pc' = "rejected"
            /\ UNCHANGED issueComments
    /\ UNCHANGED <<files, nextFile, skippedFiles, reviewedFiles, invoked, apiComments, cliVars, adapterVars, deleteVars, textVars, simVars,
                   callLog, calls, mapperVars, dedupVars, fileVars>>

\* if (config.addSummaryComment) await addSummaryComment({..., files: the
\* files not skipped}), which catches what generateSummary and
\* issues.createComment throw; then reviewPullRequest returns
AddSummaryComment(ok) ==
    /\ pc = "addSummaryComment"
    /\ issueComments' =
          IF config.addSummaryComment /\ ok
          THEN Append(issueComments,
                      [title |-> "summary", reviewed |-> reviewedFiles,
                       skipped |-> SelectSeq(files, LAMBDA f :
                                      \E k \in 1..Len(skippedFiles) :
                                          skippedFiles[k].filename = f.filename)])
          ELSE issueComments
    /\ pc' = "resolved"
    /\ UNCHANGED <<files, nextFile, skippedFiles, reviewedFiles, invoked, rejected, apiComments, cliVars, adapterVars, deleteVars,
                   textVars, simVars, callLog, calls, mapperVars, dedupVars, fileVars>>

(***************************************************************************)
(* The commands review and ci (src/src/index.js, src/src/utils/config.js)  *)
(***************************************************************************)
\* defaultConfig, a nested object, by its leaves: model is models.openai.model
defaultConfig == [commentPrefix |-> "robot", addSummaryComment |-> TRUE, model |-> "gpt-4"]

\* mergeConfigs(target, source): on leaves, the deep merge takes the leaf
\* of source where source has it
mergeConfigs(target, source) ==
    [key \in DOMAIN target \cup DOMAIN source |->
        IF key \in DOMAIN source THEN source[key] ELSE target[key]]

\* loadConfig(configPath): for a .js file the promise of import(...).then(...),
\* otherwise an object
loadConfig(configFile) ==
    IF ~configFile.exists THEN [promise |-> FALSE, value |-> defaultConfig]
    ELSE IF configFile.ext = ".js"
    THEN [promise |-> TRUE,
          value |-> IF configFile.readable
                    THEN mergeConfigs(defaultConfig, configFile.userConfig) ELSE defaultConfig]
    ELSE IF configFile.ext = ".json"
    THEN [promise |-> FALSE,
          value |-> IF configFile.readable
                    THEN mergeConfigs(defaultConfig, configFile.userConfig) ELSE defaultConfig]
    ELSE [promise |-> FALSE, value |-> defaultConfig]

\* the action callback up to const config = loadConfig(options.config),
\* which is not awaited; ci first tests its environment variables
LoadConfig ==
    /\ pc = "action"
    /\ IF cli.command = "ci" /\ ~cli.env
       THEN pc' = "exit" /\ UNCHANGED loaded
       ELSE pc' = "getModelAdapter" /\ loaded' = loadConfig(cli.configFile)
    /\ UNCHANGED <<cli, adapter, prVars, apiComments, adapterVars, deleteVars, textVars, simVars, callLog, calls,
                   mapperVars, dedupVars, fileVars>>

\* getModelAdapter('openai', config): new OpenAIAdapter(config.models?.openai || {}),
\* whose model is options.model || 'gpt-4o'; a promise has no property models
GetModelAdapter ==
    /\ pc = "getModelAdapter"
    /\ adapter' = [model |-> IF loaded.promise \/ loaded.value.model = ""
                             THEN "gpt-4o" ELSE loaded.value.model]
    /\ pc' = "callReviewPullRequest"
    /\ UNCHANGED <<cli, loaded, prVars, apiComments, adapterVars, deleteVars, textVars, simVars, callLog, calls,
                   mapperVars, dedupVars, fileVars>>

\* await reviewPullRequest({..., modelAdapter, config}): config as
\* reviewPullRequest and formatComment read it, a property that the object
\* lacks reading as undefined, which the two tests take as false
CallReviewPullRequest ==
    /\ pc = "callReviewPullRequest"
    /\ config' = [commentPrefix |-> IF loaded.promise THEN "" ELSE loaded.value.commentPrefix,
                  addSummaryComment |-> IF loaded.promise THEN FALSE
                                        ELSE loaded.value.addSummaryComment]
    /\ pc' = "reviewPullRequest"
    /\ UNCHANGED <<cliVars, prVars, apiComments, adapterVars, deleteVars, textVars, simVars, callLog, calls,
                   mapperVars, dedupVars, file, reviewComments, fi, validComments, posted, errors,
                   dupCalls>>

(***************************************************************************)
(* OpenAIAdapter.reviewCode (src/src/models/openaiAdapter.js)              *)
(***************************************************************************)
\* comment.line && comment.body && typeof comment.line === 'number'
IsValidComment(comment) == comment.line # 0 /\ comment.body # ""

\* a.severity ? severityOrder[a.severity.toLowerCase()] || 3 : 3, with
\* severityOrder = {high: 0, medium: 1, low: 2}; 0 is falsy as undefined is
SeverityRank(comment) ==
    LET severityOrder ==
            CASE ToLower(comment.severity) = "high" -> 0
              [] ToLower(comment.severity) = "medium" -> 1
              [] ToLower(comment.severity) = "low" -> 2
              [] OTHER -> Undefined
    IN  IF comment.severity = "" THEN 3
        ELSE IF severityOrder \in {0, Undefined} THEN 3 ELSE severityOrder

\* reviewComments.sort((a, b) => aSeverity - bSeverity), a stable sort: the
\* first k comments sorted, each put after the comments that rank no higher
RECURSIVE SortBySeverity(_, _)
SortBySeverity(comments, k) ==
    IF k = 0 THEN <<>>
    ELSE LET sorted == SortBySeverity(comments, k - 1)
             before == SelectSeq(sorted, LAMBDA c : SeverityRank(c) <= SeverityRank(comments[k]))
             after == SelectSeq(sorted, LAMBDA c : SeverityRank(c) > SeverityRank(comments[k]))
         IN  before \o <<comments[k]>> \o after

\* reviewCode from the parsed response on: the filter, the sort, the return
ReturnReviewComments ==
    /\ pc = "parsed"
    /\ LET valid == SelectSeq(parsedResponse, IsValidComment)
       IN  reviewComments' = SortBySeverity(valid, Len(valid))
    /\ pc' = "reviewed"
    /\ UNCHANGED <<parsedResponse, deleteVars, prVars, apiComments, cliVars, textVars, simVars, callLog, calls,
                   mapperVars, dedupVars, file, config, fi, validComments, posted, errors, dupCalls>>

(***************************************************************************)
(* deleteUserComments                                                      *)
(***************************************************************************)
\* items.filter(item => item.user.login === username)
ByUser(items) == SelectSeq(items, LAMBDA item : item.user = username)

\* { data: comments } = await octokit.pulls.listReviewComments(...); when it
\* rejects, the catch block rethrows
ListReviewComments(found, ok) ==
    /\ pc = "deleteUserComments"
    /\ IF ok
       THEN apiComments' = found /\ di' = 1 /\ pc' = "deleteComments" /\ UNCHANGED rejected
       ELSE rejected' = "listReviewComments failed" /\ pc' = "rejected"
            /\ UNCHANGED <<apiComments, di>>
    /\ UNCHANGED <<username, apiReviews, attempted, files, nextFile, skippedFiles, reviewedFiles,
                   issueComments, invoked, cliVars, adapterVars, textVars, simVars, callLog, calls,
                   mapperVars, dedupVars, fileVars>>

\* the loop over the user's comments with a failed delete ending it
DeleteReviewComment_StopsOnFailure(ok) ==
    /\ pc = "deleteComments"
    /\ di <= Len(ByUser(apiComments))
    /\ attempted' = Append(attempted, [kind |-> "comment", id |-> ByUser(apiComments)[di].id,
                                       user |-> ByUser(apiComments)[di].user, ok |-> ok])
    /\ di' = IF ok THEN di + 1 ELSE Len(ByUser(apiComments)) + 1
    /\ UNCHANGED <<pc, username, apiReviews, apiComments, prVars, cliVars, adapterVars, textVars,
                   simVars, callLog, calls, mapperVars, dedupVars, fileVars>>

\* one iteration of for (const comment of userComments): the delete
\* request, whose failure is logged
DeleteReviewComment(ok) ==
    /\ pc = "deleteComments"
    /\ di <= Len(ByUser(apiComments))
    /\ attempted' = Append(attempted, [kind |-> "comment", id |-> ByUser(apiComments)[di].id,
                                       user |-> ByUser(apiComments)[di].user, ok |-> ok])
    /\ di' = di + 1
    /\ UNCHANGED <<pc, username, apiReviews, apiComments, prVars, cliVars, adapterVars, textVars,
                   simVars, callLog, calls, mapperVars, dedupVars, fileVars>>

\* after the loop: { data: reviews } = await octokit.pulls.listReviews(...)
ListReviews(found, ok) ==
    /\ pc = "deleteComments"
    /\ di > Len(ByUser(apiComments))
    /\ IF ok
       THEN apiReviews' = found /\ di' = 1 /\ pc' = "deleteReviews" /\ UNCHANGED rejected
       ELSE rejected' = "listReviews failed" /\ pc' = "rejected" /\ UNCHANGED <<apiReviews, di>>
    /\ UNCHANGED <<username, attempted, apiComments, files, nextFile, skippedFiles, reviewedFiles,
                   issueComments, invoked, cliVars, adapterVars, textVars, simVars, callLog, calls,
                   mapperVars, dedupVars, fileVars>>

\* one iteration of for (const review of userReviews)
DeleteReview(ok) ==
    /\ pc = "deleteReviews"
    /\ di <= Len(ByUser(apiReviews))
    /\ attempted' = Append(attempted, [kind |-> "review", id |-> ByUser(apiReviews)[di].id,
                                       user |-> ByUser(apiReviews)[di].user, ok |-> ok])
    /\ di' = di + 1
    /\ UNCHANGED <<pc, username, apiReviews, apiComments, prVars, cliVars, adapterVars, textVars,
                   simVars, callLog, calls, mapperVars, dedupVars, fileVars>>

\* after the second loop deleteUserComments returns
ReturnDeleted ==
    /\ pc = "deleteReviews"
    /\ di > Len(ByUser(apiReviews))
    /\ pc' = "deleted"
    /\ UNCHANGED <<deleteVars, apiComments, prVars, cliVars, adapterVars, textVars,
                   simVars, callLog, calls, mapperVars, dedupVars, fileVars>>

(***************************************************************************)
(* Calls of the text functions                                             *)
(***************************************************************************)
\* template = extractCommentTemplate(text)
Templatize ==
    /\ pc = "template"
    /\ template' = extractCommentTemplate(text)
    /\ pc' = "templated"
    /\ UNCHANGED <<restVars, mapperVars, dedupVars, fileVars, calls, callLog, simVars, text, retemplate, terms, keywords>>

\* extractCommentTemplate applied to its own result
TemplatizeAgain ==
    /\ pc = "templated"
    /\ retemplate' = extractCommentTemplate(template)
    /\ pc' = "retemplated"
    /\ UNCHANGED <<restVars, mapperVars, dedupVars, fileVars, calls, callLog, simVars, text, template, terms, keywords>>

\* keywords = extractKeywordsFromComment(text)
ExtractKeywords ==
    /\ pc = "retemplated"
    /\ terms' = technicalTerms(text)
    /\ keywords' = extractKeywordsFromComment(text)
    /\ pc' = "keywords"
    /\ UNCHANGED <<restVars, mapperVars, dedupVars, fileVars, calls, callLog, simVars, text, template, retemplate>>

\* stringSimilarity(textA, textB), stringSimilarity(textB, textA) and
\* stringSimilarity(textA, textA)
CompareStrings ==
    /\ pc = "similarity"
    /\ similarity' = [ab |-> stringSimilarity(textA, textB),
                      ba |-> stringSimilarity(textB, textA),
                      aa |-> stringSimilarity(textA, textA)]
    /\ pc' = "wordSimilarity"
    /\ UNCHANGED <<restVars, mapperVars, dedupVars, fileVars, calls, callLog, textVars, textA, textB, wordSimilarity, overlap>>

\* wordBasedSimilarity(textA, textB) and wordBasedSimilarity(textB, textA)
CompareWords ==
    /\ pc = "wordSimilarity"
    /\ wordSimilarity' = [ab |-> wordBasedSimilarity(textA, textB),
                          ba |-> wordBasedSimilarity(textB, textA),
                          words1 |-> LongWords(textA, 1),
                          words2 |-> LongWords(textB, 1)]
    /\ pc' = "overlap"
    /\ UNCHANGED <<restVars, mapperVars, dedupVars, fileVars, calls, callLog, textVars, textA, textB, similarity, overlap>>

\* calculateKeywordOverlap(extractKeywordsFromComment(textA), extractKeywordsFromComment(textB))
OverlapKeywords ==
    /\ pc = "overlap"
    /\ LET keywords1 == extractKeywordsFromComment(textA)
           keywords2 == extractKeywordsFromComment(textB)
       IN  overlap' = [value |-> calculateKeywordOverlap(keywords1, keywords2),
                       keywords1 |-> keywords1, keywords2 |-> keywords2]
    /\ pc' = "compared"
    /\ UNCHANGED <<restVars, mapperVars, dedupVars, fileVars, calls, callLog, textVars, textA, textB, similarity, wordSimilarity>>

(***************************************************************************)
(* Repeated calls of the two core functions                                *)
(***************************************************************************)
\* the number of calls a caller makes
MaxCalls == 3

\* an entry of callLog for a call not yet returned
Pending(fn, d, candidate, existing) ==
    [fn |-> fn, diff |-> d, candidate |-> candidate, existing |-> existing,
     returned |-> FALSE, lines |-> <<>>, duplicate |-> FALSE]

\* a caller passes d to extractValidCommentLines
CallExtract(d) ==
    /\ pc = "idle"
    /\ Len(callLog) < MaxCalls
    /\ diff' = d
    /\ callLog' = Append(callLog, Pending("extractValidCommentLines", d, NoComment, <<>>))
    /\ pc' = "extract"
    /\ UNCHANGED <<restVars, textVars, simVars, calls, lines, li, currentLine, validLines, origin,
                   dedupVars, fileVars>>

\* a caller passes candidate and existing to isDuplicateComment
CallDedup(candidate, existing) ==
    /\ pc = "idle"
    /\ Len(callLog) < MaxCalls
    /\ newComment' = candidate
    /\ existingComments' = existing
    /\ callLog' = Append(callLog, Pending("isDuplicateComment", "", candidate, existing))
    /\ pc' = "dedup"
    /\ UNCHANGED <<restVars, textVars, simVars, calls, mapperVars, isDuplicate, thrown, fileVars>>

\* the caller receives the array of extractValidCommentLines
ReturnLines ==
    /\ pc = "extracted"
    /\ callLog' = [callLog EXCEPT ![Len(callLog)] =
                      [@ EXCEPT !.returned = TRUE, !.lines = validLines]]
    /\ pc' = "idle"
    /\ UNCHANGED <<restVars, textVars, simVars, calls, mapperVars, dedupVars, fileVars>>

\* the caller receives the boolean of isDuplicateComment
ReturnDuplicate ==
    /\ pc = "deduped"
    /\ callLog' = [callLog EXCEPT ![Len(callLog)] =
                      [@ EXCEPT !.returned = TRUE, !.duplicate = isDuplicate]]
    /\ pc' = "idle"
    /\ UNCHANGED <<restVars, textVars, simVars, calls, mapperVars, dedupVars, fileVars>>

(***************************************************************************)
(* Inputs of the mapper                                                    *)
(***************************************************************************)
MaxDiffLines == 4

LinePool ==
    { "@@ -1,3 +1,4 @@",        \* hunk header, newStart 1
      "@@ -10 +12,2 @@ fn()",   \* hunk header without old count, newStart 12
      "@@ -1,2 +0,0 @@",        \* hunk header of a file emptied, newStart 0
      "@@ -1,3 1,4 @@",         \* malformed: no '+' before the new range
      "+a", " b", "-c", "" }

\* the diff of the specification's section 8
ExampleDiff == "@@ -1,3 +1,4 @@\n line1\n+line2\n line3\n-line4\n line5"

DiffInputs ==
    {JoinLines(ls) : ls \in UNION {[1..n -> LinePool] : n \in 0..MaxDiffLines}}
        \cup {ExampleDiff}

\* the variables of reviewFile while no file is under review
FileIdle ==
    /\ file = [status |-> "modified", binary |-> FALSE, filename |-> "src/app.js"]
    /\ config = [commentPrefix |-> ""]
    /\ reviewComments = <<>>
    /\ fi = 1
    /\ validComments = <<>>
    /\ posted = <<>>
    /\ errors = <<>>
    /\ dupCalls = <<>>
    /\ calls = <<>>
    /\ callLog = <<>>

\* the variables of the other functions while none is called
PullRequestIdle ==
    /\ files = <<>>
    /\ nextFile = 1
    /\ skippedFiles = <<>>
    /\ reviewedFiles = 0
    /\ issueComments = <<>>
    /\ invoked = <<>>
    /\ rejected = ""

NotLoaded == [promise |-> FALSE, value |-> [commentPrefix |-> ""]]

CliIdle ==
    /\ cli = [command |-> ""]
    /\ loaded = NotLoaded
    /\ adapter = [model |-> ""]

DeleteIdle ==
    /\ username = ""
    /\ apiReviews = <<>>
    /\ di = 1
    /\ attempted = <<>>

RestIdle ==
    /\ apiComments = <<>>
    /\ PullRequestIdle
    /\ CliIdle
    /\ parsedResponse = <<>>
    /\ DeleteIdle

\* the variables of the text functions while none is called
TextIdle ==
    /\ text = ""
    /\ template = ""
    /\ retemplate = ""
    /\ terms = {}
    /\ keywords = {}

\* the variables of the similarity functions while none is called
NoScore == [num |-> 0, den |-> 1]

SimIdle ==
    /\ textA = ""
    /\ textB = ""
    /\ similarity = [ab |-> NoScore, ba |-> NoScore, aa |-> NoScore]
    /\ wordSimilarity = [ab |-> NoScore, ba |-> NoScore, words1 |-> <<>>, words2 |-> <<>>]
    /\ overlap = [value |-> NoScore, keywords1 |-> {}, keywords2 |-> {}]

InitMapper ==
    /\ RestIdle
    /\ pc = "extract"
    /\ diff \in DiffInputs
    /\ lines = <<>>
    /\ li = 1
    /\ currentLine = Null
    /\ validLines = <<>>
    /\ origin = <<>>
    /\ newComment = NoComment
    /\ existingComments = <<>>
    /\ isDuplicate = FALSE
    /\ thrown = ""
    /\ FileIdle
    /\ TextIdle
    /\ SimIdle

NextMapper == ExtractBegin \/ ScanLine \/ ExtractReturn

SpecMapper == InitMapper /\ [][NextMapper]_vars

(***************************************************************************)
(* Inputs of the deduplicator                                              *)
(***************************************************************************)
MaxExisting == 2

\* the candidate sits on line 10; existing comments sit 2, 5, 6 and 90 lines away
CandidateLines == {10}
ExistingLines == {12, 15, 16, 100}

CandidateBodies ==
    { "Unused variable 'fooBar' should be removed.",
      "12345", "aaaa bbbb 1", "aaa bbb ccc 123", "'x1' 111111" }

ExistingPool == [line : ExistingLines, body : BodyPool]

InitDedup ==
    /\ RestIdle
    /\ pc = "dedup"
    /\ newComment \in [line : CandidateLines, body : CandidateBodies]
    /\ existingComments \in UNION {[1..n -> ExistingPool] : n \in 0..MaxExisting}
    /\ isDuplicate = FALSE
    /\ thrown = ""
    /\ diff = ""
    /\ lines = <<>>
    /\ li = 1
    /\ currentLine = Null
    /\ validLines = <<>>
    /\ origin = <<>>
    /\ FileIdle
    /\ TextIdle
    /\ SimIdle

NextDedup == CallIsDuplicate

SpecDedup == InitDedup /\ [][NextDedup]_vars

(***************************************************************************)
(* Inputs of the deduplicator with bodies of any type                      *)
(***************************************************************************)
UntypedBodies == {"", "Unused variable 'bazQux' should be removed.", NotAString}

InitUntyped ==
    /\ RestIdle
    /\ pc = "dedup"
    /\ newComment \in [line : CandidateLines, body : UntypedBodies]
    /\ existingComments \in
          UNION {[1..n -> [line : {12, 100}, body : UntypedBodies]] : n \in 0..MaxExisting}
    /\ isDuplicate = FALSE
    /\ thrown = ""
    /\ diff = ""
    /\ lines = <<>>
    /\ li = 1
    /\ currentLine = Null
    /\ validLines = <<>>
    /\ origin = <<>>
    /\ FileIdle
    /\ TextIdle
    /\ SimIdle

SpecUntyped == InitUntyped /\ [][NextDedup]_vars

(***************************************************************************)
(* Inputs of getExistingComments followed by the deduplicator              *)
(***************************************************************************)
\* review comments of two files, with a line, with an original line only,
\* and with neither (null, or the property missing), and a candidate near
\* line 0 or far from it
InitExisting ==
    /\ pc = "getExistingComments"
    /\ PullRequestIdle
    /\ CliIdle
    /\ parsedResponse = <<>>
    /\ DeleteIdle
    /\ apiComments \in UNION {[1..n -> [path : {"src/app.js", "README.md"},
                                        line : {3, Null},
                                        original_line : {3, Null, Undefined},
                                        body : {"Unused variable 'bazQux' should be removed."}]]
                                  : n \in 0..MaxExisting}
    /\ newComment \in [line : {2, 10}, body : {"Unused variable 'fooBar' should be removed."}]
    /\ existingComments = <<>>
    /\ isDuplicate = FALSE
    /\ thrown = ""
    /\ diff = ""
    /\ lines = <<>>
    /\ li = 1
    /\ currentLine = Null
    /\ validLines = <<>>
    /\ origin = <<>>
    /\ FileIdle
    /\ TextIdle
    /\ SimIdle

SpecExisting == InitExisting /\ [][FetchExistingComments \/ CallIsDuplicate]_vars

(***************************************************************************)
(* Inputs of the text functions                                            *)
(***************************************************************************)
MaxWords == 2

\* the words the comment bodies are made of: identifiers of each naming
\* style, a common word, a keyword, method calls, technical terms of three
\* and of more characters, a number
TemplateTokens ==
    {"fooBar", "FooBar", "user_name", "MAX_SIZE", "the", "return",
     "promise.then(x)", "obj.save()", "api", "bug", "prefix", "us", "12345"}

\* the words of ws joined by single spaces
RECURSIVE JoinWords(_)
JoinWords(ws) ==
    IF ws = <<>> THEN ""
    ELSE IF Len(ws) = 1 THEN ws[1]
    ELSE ws[1] \o " " \o JoinWords(Tail(ws))

TemplateTexts ==
    {JoinWords(ws) : ws \in UNION {[1..n -> TemplateTokens] : n \in 0..MaxWords}}

InitTemplate ==
    /\ RestIdle
    /\ pc = "template"
    /\ text \in TemplateTexts
    /\ template = ""
    /\ retemplate = ""
    /\ terms = {}
    /\ keywords = {}
    /\ diff = ""
    /\ lines = <<>>
    /\ li = 1
    /\ currentLine = Null
    /\ validLines = <<>>
    /\ origin = <<>>
    /\ newComment = NoComment
    /\ existingComments = <<>>
    /\ isDuplicate = FALSE
    /\ thrown = ""
    /\ FileIdle
    /\ SimIdle

NextTemplate == Templatize \/ TemplatizeAgain \/ ExtractKeywords

SpecTemplate == InitTemplate /\ [][NextTemplate]_vars

(***************************************************************************)
(* Inputs of the similarity functions                                      *)
(***************************************************************************)
\* a word of 20 characters (two of them outrun one by more than LengthGap),
\* the same word with a full stop that normalize takes away, a technical
\* word, a word without keyword, a word too short to count
SimilarityTokens == {"internationalization", "internationalization.", "api", "12345", "ab"}

SimilarityTexts ==
    {JoinWords(ws) : ws \in UNION {[1..n -> SimilarityTokens] : n \in 0..MaxWords}}

InitSimilarity ==
    /\ RestIdle
    /\ pc = "similarity"
    /\ textA \in SimilarityTexts
    /\ textB \in SimilarityTokens \cup {""}
    /\ similarity = [ab |-> NoScore, ba |-> NoScore, aa |-> NoScore]
    /\ wordSimilarity = [ab |-> NoScore, ba |-> NoScore, words1 |-> <<>>, words2 |-> <<>>]
    /\ overlap = [value |-> NoScore, keywords1 |-> {}, keywords2 |-> {}]
    /\ diff = ""
    /\ lines = <<>>
    /\ li = 1
    /\ currentLine = Null
    /\ validLines = <<>>
    /\ origin = <<>>
    /\ newComment = NoComment
    /\ existingComments = <<>>
    /\ isDuplicate = FALSE
    /\ thrown = ""
    /\ FileIdle
    /\ text = ""
    /\ template = ""
    /\ retemplate = ""
    /\ terms = {}
    /\ keywords = {}

NextSimilarity == CompareStrings \/ CompareWords \/ OverlapKeywords

SpecSimilarity == InitSimilarity /\ [][NextSimilarity]_vars

(***************************************************************************)
(* Inputs of the repeated calls                                            *)
(***************************************************************************)
\* the empty diff, a diff without header, a diff with one hunk
PureDiffs == {"", "+a", "@@ -1,3 +1,4 @@\n+a\n b"}

PureCandidates ==
    [line : {10}, body : {"Unused variable 'fooBar' should be removed.", "12345"}]

PureExisting ==
    {<<>>} \cup
    {<<e>> : e \in [line : {12},
                    body : {"Unused variable 'bazQux' should be removed.", "12995"}]}

InitPure ==
    /\ RestIdle
    /\ pc = "idle"
    /\ diff = ""
    /\ lines = <<>>
    /\ li = 1
    /\ currentLine = Null
    /\ validLines = <<>>
    /\ origin = <<>>
    /\ newComment = NoComment
    /\ existingComments = <<>>
    /\ isDuplicate = FALSE
    /\ thrown = ""
    /\ FileIdle
    /\ TextIdle
    /\ SimIdle

NextPure ==
    \/ \E d \in PureDiffs : CallExtract(d)
    \/ \E candidate \in PureCandidates, existing \in PureExisting :
          CallDedup(candidate, existing)
    \/ ExtractBegin
    \/ ScanLine
    \/ ExtractReturn
    \/ ReturnLines
    \/ CallIsDuplicate
    \/ ReturnDuplicate

SpecPure == InitPure /\ [][NextPure]_vars

(***************************************************************************)
(* Inputs of reviewFile                                                    *)
(***************************************************************************)
MaxCandidates == 2

\* s repeated n times
RECURSIVE Repeat(_, _)
Repeat(s, n) ==
    IF n = 0 THEN ""
    ELSE IF n % 2 = 0 THEN LET h == Repeat(s, n \div 2) IN h \o h
    ELSE s \o Repeat(s, n - 1)

\* a patch of MaxReviewLines + 1 lines
LargeDiff == "@@ -1 +1,1000 @@" \o Repeat("\n+a", MaxReviewLines)

\* what getDiff can return: no patch, a blank patch, the example, a patch of
\* removed lines only, a patch too large
FileDiffs ==
    {"", " \n", ExampleDiff, "@@ -1,2 +0,0 @@\n-a\n-b", LargeDiff}

FileInputs == [status : {"modified", "removed"}, binary : BOOLEAN, filename : {"src/app.js"}]

ConfigInputs == {[commentPrefix |-> ""], [commentPrefix |-> "AI"]}

\* the comments found on the file
FileExistingPool ==
    [line : {2, 9},
     body : {"Unused variable 'bazQux' should be removed.", "12995"}]

\* the comments the model returns: line 9 is not a line of the example diff,
\* and a body need not be a string
CandidatePool ==
    [line : {2, 4, 9},
     body : {"Unused variable 'fooBar' should be removed.", "12345", NotAString}]

Init ==
    /\ RestIdle
    /\ pc = "reviewFile"
    /\ file \in FileInputs
    /\ config \in ConfigInputs
    /\ diff = ""
    /\ lines = <<>>
    /\ li = 1
    /\ currentLine = Null
    /\ validLines = <<>>
    /\ origin = <<>>
    /\ newComment = NoComment
    /\ existingComments = <<>>
    /\ isDuplicate = FALSE
    /\ thrown = ""
    /\ reviewComments = <<>>
    /\ fi = 1
    /\ validComments = <<>>
    /\ posted = <<>>
    /\ errors = <<>>
    /\ dupCalls = <<>>
    /\ calls = <<>>
    /\ callLog = <<>>
    /\ TextIdle
    /\ SimIdle

Next ==
    \/ SkipRemovedOrBinary
    \/ \E patch \in FileDiffs : GetDiff(patch)
    \/ CheckDiff
    \/ ExtractBegin
    \/ ScanLine
    \/ ExtractReturn
    \/ CheckValidLines
    \/ \E found \in UNION {[1..n -> FileExistingPool] : n \in 0..MaxExisting} :
          GetExistingComments(found)
    \/ GetExistingCommentsFails
    \/ \E comments \in UNION {[1..n -> CandidatePool] : n \in 0..MaxCandidates} :
          ReviewCode(comments)
    \/ ReviewCodeFails
    \/ FilterComment
    \/ FilterDone
    \/ CreateBatchReviewComments
    \/ CreateBatchReviewCommentsFails

Spec == Init /\ [][Next]_vars

(***************************************************************************)
(* Inputs of reviewPullRequest                                             *)
(***************************************************************************)
MaxFiles == 2

\* fileFilters of defaultConfig
DefaultFileFilters ==
    [include |-> <<".*">>,
     exclude |-> <<".*\\.md$", ".*\\.lock$", "package-lock\\.json$", "yarn\\.lock$",
                   "\\.gitignore$", "\\.env.*">>]

InitPullRequest ==
    /\ pc = "reviewPullRequest"
    /\ config \in [commentPrefix : {""}, addSummaryComment : BOOLEAN,
                    fileFilters : {DefaultFileFilters}]
    /\ PullRequestIdle
    /\ CliIdle
    /\ parsedResponse = <<>>
    /\ DeleteIdle
    /\ apiComments = <<>>
    /\ file = [status |-> "modified", binary |-> FALSE, filename |-> "src/app.js"]
    /\ diff = ""
    /\ lines = <<>>
    /\ li = 1
    /\ currentLine = Null
    /\ validLines = <<>>
    /\ origin = <<>>
    /\ newComment = NoComment
    /\ existingComments = <<>>
    /\ isDuplicate = FALSE
    /\ thrown = ""
    /\ reviewComments = <<>>
    /\ fi = 1
    /\ validComments = <<>>
    /\ posted = <<>>
    /\ errors = <<>>
    /\ dupCalls = <<>>
    /\ calls = <<>>
    /\ callLog = <<>>
    /\ TextIdle
    /\ SimIdle

\* the files of the pull request: a source file changed or removed and a
\* README changed; a file has no patch, the example patch or a patch too
\* large, no comment yet, and the model returns no comment or one
NextPullRequest ==
    \/ \E found \in UNION {[1..n -> {[status |-> "modified", binary |-> FALSE, filename |-> "src/app.js"],
                                       [status |-> "removed", binary |-> FALSE, filename |-> "src/app.js"],
                                       [status |-> "modified", binary |-> FALSE, filename |-> "README.md"]}]
                                : n \in 0..MaxFiles} : ListFiles(found)
    \/ ListFilesFails
    \/ CallReviewFile
    \/ SkipRemovedOrBinary
    \/ \E patch \in {"", ExampleDiff, LargeDiff} : GetDiff(patch)
    \/ CheckDiff
    \/ ExtractBegin
    \/ ScanLine
    \/ ExtractReturn
    \/ CheckValidLines
    \/ GetExistingComments(<<>>)
    \/ GetExistingCommentsFails
    \/ \E comments \in {<<>>, <<[line |-> 2, body |-> "12345"]>>} : ReviewCode(comments)
    \/ ReviewCodeFails
    \/ FilterComment
    \/ FilterDone
    \/ CreateBatchReviewComments
    \/ CreateBatchReviewCommentsFails
    \/ ReviewFileSettles
    \/ \E ok \in BOOLEAN : PostSkippedSummary(ok)
    \/ \E ok \in BOOLEAN : AddSummaryComment(ok)

SpecPullRequest == InitPullRequest /\ [][NextPullRequest]_vars

(***************************************************************************)
(* Inputs of the commands                                                  *)
(***************************************************************************)
\* a config file that is missing or there, as .js, .json or .yaml, readable
\* or not, that sets the prefix alone or the three leaves
InitCli ==
    /\ pc = "action"
    /\ cli \in [command : {"review", "ci"}, env : BOOLEAN,
                 configFile : [exists : BOOLEAN, ext : {".js", ".json", ".yaml"},
                               readable : BOOLEAN,
                               userConfig : [commentPrefix : {"AI"}]
                                            \cup [commentPrefix : {"", "AI"},
                                                  addSummaryComment : BOOLEAN,
                                                  model : {"gpt-3.5-turbo"}]]]
    /\ loaded = NotLoaded
    /\ adapter = [model |-> ""]
    /\ PullRequestIdle
    /\ parsedResponse = <<>>
    /\ DeleteIdle
    /\ apiComments = <<>>
    /\ diff = ""
    /\ lines = <<>>
    /\ li = 1
    /\ currentLine = Null
    /\ validLines = <<>>
    /\ origin = <<>>
    /\ newComment = NoComment
    /\ existingComments = <<>>
    /\ isDuplicate = FALSE
    /\ thrown = ""
    /\ FileIdle
    /\ TextIdle
    /\ SimIdle

NextCli == LoadConfig \/ GetModelAdapter \/ CallReviewPullRequest

SpecCli == InitCli /\ [][NextCli]_vars

(***************************************************************************)
(* Inputs of OpenAIAdapter.reviewCode                                      *)
(***************************************************************************)
\* comments of every severity, of a severity in capitals, of one unknown
\* and of none, and comments that lack a line or a body
InitAdapter ==
    /\ pc = "parsed"
    /\ parsedResponse \in
          UNION {[1..n -> [line : {2}, body : {"12345"},
                           severity : {"high", "High", "medium", "low", "critical", ""}]
                          \cup [line : {0, 2}, body : {""}, severity : {"high"}]
                          \cup [line : {0}, body : {"12345"}, severity : {"low"}]]
                    : n \in 0..MaxCandidates}
    /\ PullRequestIdle
    /\ CliIdle
    /\ DeleteIdle
    /\ apiComments = <<>>
    /\ diff = ""
    /\ lines = <<>>
    /\ li = 1
    /\ currentLine = Null
    /\ validLines = <<>>
    /\ origin = <<>>
    /\ newComment = NoComment
    /\ existingComments = <<>>
    /\ isDuplicate = FALSE
    /\ thrown = ""
    /\ FileIdle
    /\ TextIdle
    /\ SimIdle

SpecAdapter == InitAdapter /\ [][ReturnReviewComments]_vars

(***************************************************************************)
(* Inputs of deleteUserComments                                            *)
(***************************************************************************)
MaxItems == 2

\* the lists of up to MaxItems items by the user or by another, numbered
\* from first
ItemLists(first) ==
    UNION {{[k \in 1..n |-> [id |-> first + k, user |-> users[k]]] :
                users \in [1..n -> {"ai-bot", "alice"}]} : n \in 0..MaxItems}

InitDelete ==
    /\ pc = "deleteUserComments"
    /\ username = "ai-bot"
    /\ apiComments = <<>>
    /\ apiReviews = <<>>
    /\ di = 1
    /\ attempted = <<>>
    /\ PullRequestIdle
    /\ CliIdle
    /\ parsedResponse = <<>>
    /\ diff = ""
    /\ lines = <<>>
    /\ li = 1
    /\ currentLine = Null
    /\ validLines = <<>>
    /\ origin = <<>>
    /\ newComment = NoComment
    /\ existingComments = <<>>
    /\ isDuplicate = FALSE
    /\ thrown = ""
    /\ FileIdle
    /\ TextIdle
    /\ SimIdle

NextDelete ==
    \/ \E found \in ItemLists(0), ok \in BOOLEAN : ListReviewComments(found, ok)
    \/ \E ok \in BOOLEAN : DeleteReviewComment(ok)
    \/ \E found \in ItemLists(100), ok \in BOOLEAN : ListReviews(found, ok)
    \/ \E ok \in BOOLEAN : DeleteReview(ok)
    \/ ReturnDeleted

SpecDelete == InitDelete /\ [][NextDelete]_vars

(***************************************************************************)
(* Properties of the mapper (specification SpecMapper)                     *)
(***************************************************************************)
IsCommentable(line) ==
    ~IsHunkLine(line) /\ (StartsWith(line, "+") \/ StartsWith(line, " "))

\* the index of the last valid hunk header before line j, 0 when there is none
LastValidHeaderBefore(j) ==
    LET hs == {h \in 1..(j - 1) : IsValidHeader(lines[h])}
    IN  IF hs = {} THEN 0 ELSE CHOOSE h \in hs : \A g \in hs : g <= h

\* the index of the last line starting with '@@' before line j, 0 when none
LastHunkLineBefore(j) ==
    LET hs == {h \in 1..(j - 1) : IsHunkLine(lines[h])}
    IN  IF hs = {} THEN 0 ELSE CHOOSE h \in hs : \A g \in hs : g <= h

NewStartOf(h) == ParseInt(HeaderCapture(lines[h]))

Contributors == {origin[k] : k \in 1..Len(origin)}

\* C1: every recorded number is pushed by a line that starts with '+' or ' '
\* and follows a valid hunk header; no line starting with '-' and no line
\* before the first valid hunk header pushes anything.
C1_OnlyAddedOrContextAfterHeader ==
    /\ Len(origin) = Len(validLines)
    /\ \A k \in 1..Len(validLines) :
          /\ origin[k] \in 1..Len(lines)
          /\ StartsWith(lines[origin[k]], "+") \/ StartsWith(lines[origin[k]], " ")
          /\ LastValidHeaderBefore(origin[k]) # 0
    /\ \A j \in 1..Min(li - 1, Len(lines)) :
          (StartsWith(lines[j], "-") \/ LastValidHeaderBefore(j) = 0)
              => j \notin Contributors

\* a finished run in which a '+' line precedes the first header, a '-' line
\* follows it, and something was recorded
C1_Witness ==
    /\ pc = "extracted"
    /\ validLines # <<>>
    /\ \E j \in 1..Len(lines) : StartsWith(lines[j], "+") /\ LastValidHeaderBefore(j) = 0
    /\ \E j \in 1..Len(lines) : StartsWith(lines[j], "-") /\ LastValidHeaderBefore(j) # 0

\* C2: the k-th added or context line after a header with newStart n is
\* recorded as n + k - 1; removed lines are not recorded and do not advance
\* the cursor (the example of section 8 yields 1,2,3,4).
C2_CursorCountsAddedAndContext ==
    /\ \A k \in 1..Len(validLines) :
          LET h == LastValidHeaderBefore(origin[k])
          IN  validLines[k] =
                  NewStartOf(h)
                    + Cardinality({j \in (h + 1)..(origin[k] - 1) : IsCommentable(lines[j])})
    /\ (pc = "extracted" /\ diff = ExampleDiff) => validLines = <<1, 2, 3, 4>>

C2_Witness ==
    /\ pc = "extracted"
    /\ diff = ExampleDiff
    /\ validLines = <<1, 2, 3, 4>>
    /\ origin = <<2, 3, 4, 6>>

HunksAscend ==
    \A h \in 1..Len(lines) :
        IsValidHeader(lines[h]) =>
            \A k \in 1..Len(validLines) : origin[k] < h => validLines[k] < NewStartOf(h)

OnlyRemovedLines ==
    \A j \in 1..Len(lines) :
        LastValidHeaderBefore(j) # 0 =>
            IsHunkLine(lines[j]) \/ StartsWith(lines[j], "-")

\* C4: the result is empty for the empty diff and for a diff whose hunks
\* hold only removed lines.
C4_EmptyForEmptyOrDeletionsOnly ==
    (pc = "extracted" /\ (diff = "" \/ OnlyRemovedLines)) => validLines = <<>>

\* a finished run over a hunk of removed lines
C4_Witness ==
    /\ pc = "extracted"
    /\ diff # ""
    /\ OnlyRemovedLines
    /\ \E j \in 1..Len(lines) : StartsWith(lines[j], "-") /\ LastValidHeaderBefore(j) # 0
    /\ validLines = <<>>

\* C5 as claimed: after a malformed header nothing is recorded until the
\* next valid header, also when a valid hunk came before: the last '@@' line
\* before a recorded line is a valid header.
C5_MalformedHeaderUnsetsCursor ==
    \A k \in 1..Len(validLines) :
        LastHunkLineBefore(origin[k]) = LastValidHeaderBefore(origin[k])

(***************************************************************************)
(* Properties of reviewFile                                                *)
(***************************************************************************)
\* C6: every comment passed to createBatchReviewComments sits on a line of
\* extractValidCommentLines(diff) and comes from a candidate that
\* isDuplicateComment does not hold a duplicate of the existing comments;
\* isDuplicateComment is never called on a candidate whose line is not
\* commentable.
C6_PostedAreCommentableAndFresh ==
    /\ \A b \in 1..Len(posted) : \A k \in 1..Len(posted[b]) :
          /\ \E j \in 1..Len(validLines) : validLines[j] = posted[b][k].line
          /\ \E j \in 1..Len(reviewComments) :
                /\ reviewComments[j].line = posted[b][k].line
                /\ formatComment(reviewComments[j].body, config) = posted[b][k].body
                /\ ~isDuplicateComment(reviewComments[j], existingComments, 5)
    /\ \A k \in 1..Len(dupCalls) :
          \E j \in 1..Len(validLines) : validLines[j] = dupCalls[k].line

\* a review where the model commented a line outside the diff and a line of
\* the diff next to an existing comment: the second alone was tested and posted
C6_Witness ==
    /\ pc = "returned"
    /\ diff = ExampleDiff
    /\ Len(existingComments) > 0
    /\ Len(reviewComments) = 2
    /\ reviewComments[1].line = 9
    /\ reviewComments[2].line = 4
    /\ dupCalls = <<reviewComments[2]>>
    /\ Len(posted) = 1
    /\ Len(posted[1]) = 1
    /\ posted[1][1].line = 4

\* C19: when extractValidCommentLines returns no line for the diff of a
\* file, reviewFile returns having fetched nothing but the diff: no existing
\* comments, no call of the model, no review, and no error recorded.
C19_NoCommentableLineSkipsFile ==
    (pc = "returned" /\ lines # <<>> /\ validLines = <<>>) =>
        /\ calls = <<"getDiff">>
        /\ posted = <<>>
        /\ errors = <<>>
        /\ reviewComments = <<>>
        /\ dupCalls = <<>>

\* a file whose diff holds removed lines only, skipped
C19_Witness ==
    /\ pc = "returned"
    /\ diff = "@@ -1,2 +0,0 @@\n-a\n-b"
    /\ Len(lines) = 3
    /\ validLines = <<>>
    /\ calls = <<"getDiff">>
    /\ errors = <<>>

(***************************************************************************)
(* Properties of the deduplicator                                          *)
(***************************************************************************)
\* the distance in lines of the k-th existing comment to the candidate
LineDistance(k) == Abs(existingComments[k].line - newComment.line)

\* the measures of the candidate's body against the k-th existing comment's
MeasuresOf(k) == Measures[<<newComment.body, existingComments[k].body>>]

\* C7: with an existing comment within lineProximity lines whose body has
\* the template of the candidate's body, the result is true.
C7_SameTemplateNearbyIsDuplicate ==
    (/\ pc = "deduped"
     /\ \E k \in 1..Len(existingComments) :
           LineDistance(k) <= 5 /\ MeasuresOf(k).templateMatch)
    => isDuplicate

\* the example of the two unused variables at lines 10 and 12, met after a
\* nearby comment on something else
C7_Witness ==
    /\ pc = "deduped"
    /\ newComment = [line |-> 10, body |-> "Unused variable 'fooBar' should be removed."]
    /\ existingComments =
          << [line |-> 12, body |-> "12995"],
             [line |-> 12, body |-> "Unused variable 'bazQux' should be removed."] >>
    /\ isDuplicate

\* C8: with every existing comment more than lineProximity lines away the
\* result is false whatever the bodies; a comment exactly lineProximity lines
\* away with the candidate's own body makes the result true.
C8_FarCommentsAreSkipped ==
    pc = "deduped" =>
        /\ (\A k \in 1..Len(existingComments) : LineDistance(k) > 5) => ~isDuplicate
        /\ (\E k \in 1..Len(existingComments) :
               LineDistance(k) = 5 /\ existingComments[k].body = newComment.body)
           => isDuplicate

\* the candidate's own text stands 6 and 90 lines away and is not found
C8_Witness ==
    /\ pc = "deduped"
    /\ Len(existingComments) = 2
    /\ existingComments[1] = [line |-> 16, body |-> newComment.body]
    /\ existingComments[2] = [line |-> 100, body |-> newComment.body]
    /\ ~isDuplicate

\* C9: with no existing comment the result is false.
C9_EmptyExistingIsNeverDuplicate ==
    (pc = "deduped" /\ existingComments = <<>>) => ~isDuplicate

\* a call with no existing comment
C9_Witness ==
    /\ pc = "deduped"
    /\ existingComments = <<>>
    /\ newComment.body = "Unused variable 'fooBar' should be removed."
    /\ ~isDuplicate

\* C10: the result is true exactly when some existing comment within
\* lineProximity lines has the candidate's template, or a keyword overlap
\* above 1/2, or a text similarity above 6/10, or a template similarity above
\* 85/100, each comparison strict.
C10_DuplicateIffSomeScoreExceeds ==
    pc = "deduped" =>
        (isDuplicate <=>
            \E k \in 1..Len(existingComments) :
                /\ LineDistance(k) <= 5
                /\ \/ MeasuresOf(k).templateMatch
                   \/ 2 * MeasuresOf(k).keywordOverlap.num > MeasuresOf(k).keywordOverlap.den
                   \/ 10 * MeasuresOf(k).textSimilarity.num
                         > 6 * MeasuresOf(k).textSimilarity.den
                   \/ 100 * MeasuresOf(k).templateSimilarity.num
                         > 85 * MeasuresOf(k).templateSimilarity.den)

\* nearby comments whose scores sit on the thresholds: a text similarity of
\* exactly 6/10, a keyword overlap of exactly 1/2, and no duplicate
C10_Witness ==
    /\ pc = "deduped"
    /\ ~isDuplicate
    /\ \E k \in 1..Len(existingComments) :
          /\ LineDistance(k) <= 5
          /\ 10 * MeasuresOf(k).textSimilarity.num = 6 * MeasuresOf(k).textSimilarity.den
          /\ MeasuresOf(k).textSimilarity.num > 0
    /\ newComment.body = "12345"

(***************************************************************************)
(* Properties of extractCommentTemplate                                    *)
(***************************************************************************)
\* C11: extractCommentTemplate applied to its own result gives that result
\* again; no placeholder is substituted a second time.
C11_TemplateIsIdempotent ==
    pc \in {"retemplated", "keywords"} => retemplate = template

\* the positions of text where a method call '.name(' starts
MethodCalls(s) ==
    {i \in 1..Len(s) :
        /\ CharAt(s, i) = "."
        /\ i < Len(s) /\ CharAt(s, i + 1) \in LetterChars
        /\ LitAt(s, RunEnd(s, i + 1, WordChars), "(")}

\* the positions of s where p stands
Occurrences(s, p) == {i \in 1..Len(s) : LitAt(s, i, p)}

\* C14: a token that is no common word and no keyword is classified in the
\* order lowerCamelCase {var}, UpperCamelCase {Class}, snake_case
\* {snake_var}, ALL_CAPS {CONST}, else unchanged.
C14_ClassifiedInOrder ==
    pc = "templated" =>
        /\ text = "fooBar" => template = "{var}"
        /\ text = "FooBar" => template = "{Class}"
        /\ text = "user_name" => template = "{snake_var}"
        /\ text = "MAX_SIZE" => template = "{CONST}"
        /\ text = "12345" => template = "12345"

\* C15: every method call '.name(' of the body has its name replaced by
\* {method} in the template.
C15_MethodNamesBecomeMethod ==
    pc = "templated" =>
        Cardinality(Occurrences(template, ".{method}(")) = Cardinality(MethodCalls(text))

(***************************************************************************)
(* Properties of extractKeywordsFromComment                                *)
(***************************************************************************)
\* w stands in s as a whole word
IsWholeWord(s, w) ==
    \E i \in 1..Len(s) :
        /\ LitAt(s, i, w)
        /\ i = 1 \/ CharAt(s, i - 1) \notin WordChars
        /\ i + Len(w) > Len(s) \/ CharAt(s, i + Len(w)) \notin WordChars

\* a word of the technical vocabulary, or one that holds one of the four marks
IsTechnical(w) ==
    \/ w \in CodeRelatedTerms
    \/ \E m \in {"error", "bug", "fix", "issue"} : Includes(w, m)

\* C16 as claimed: every technical term added is a technical word longer
\* than 3 characters; 'api', 'bug' and the like are never added.
C16_TermsLongerThanThree ==
    pc = "keywords" => \A w \in terms : Len(w) > 3 /\ IsTechnical(w)

\* C16 (amended): the technical terms are the whole words of the lowercased
\* body that are longer than 2 characters and technical; words of 3
\* characters such as 'api' and 'bug' are added, words of 2 or fewer never.
C16_TermsLongerThanTwo ==
    pc = "keywords" =>
        /\ \A w \in terms : Len(w) > 2 /\ IsTechnical(w) /\ IsWholeWord(ToLower(text), w)
        /\ \A w \in {"api", "bug", "prefix"} : IsWholeWord(ToLower(text), w) => w \in terms

\* a body of a two-letter word and a three-letter technical word
C16_Witness ==
    /\ pc = "keywords"
    /\ text = "us api"
    /\ terms = {"api"}
    /\ "api" \in keywords

(***************************************************************************)
(* Properties of the similarity functions                                  *)
(***************************************************************************)
\* C12: stringSimilarity of a text with itself is 1, and stringSimilarity
\* gives the same score in both orders of its arguments, the word branch
\* included.
C12_SimilarityReflexiveSymmetric ==
    pc \in {"wordSimilarity", "overlap", "compared"} =>
        /\ similarity.aa.num = similarity.aa.den
        /\ similarity.ab.num * similarity.ba.den = similarity.ba.num * similarity.ab.den

\* C13: stringSimilarity and wordBasedSimilarity return a score from 0 to 1,
\* also with a word repeated in a text.
C13_ScoresBetweenZeroAndOne ==
    /\ pc \in {"wordSimilarity", "overlap", "compared"} =>
          \A s \in {similarity.ab, similarity.ba, similarity.aa} :
              0 <= s.num /\ s.num <= s.den
    /\ pc \in {"overlap", "compared"} =>
          \A s \in {wordSimilarity.ab, wordSimilarity.ba} : 0 <= s.num /\ s.num <= s.den

\* a score that is zero
IsZero(s) == s.num = 0 /\ s.den > 0

\* C18: calculateKeywordOverlap is 0 when one of the keyword sets is empty,
\* wordBasedSimilarity is 0 when one of the word lists is empty, and the
\* empty body scores 0 against a body that is not empty under both.
C18_EmptyScoresZero ==
    /\ pc = "compared" =>
          /\ (overlap.keywords1 = {} \/ overlap.keywords2 = {}) => IsZero(overlap.value)
          /\ (textB = "" /\ textA # "") => IsZero(overlap.value)
    /\ pc \in {"overlap", "compared"} =>
          /\ (wordSimilarity.words1 = <<>> \/ wordSimilarity.words2 = <<>>)
                => IsZero(wordSimilarity.ab) /\ IsZero(wordSimilarity.ba)
          /\ (textB = "" /\ textA # "")
                => IsZero(wordSimilarity.ab) /\ IsZero(wordSimilarity.ba)

\* the empty body against a body with a keyword and a long word, and two
\* bodies without keywords
C18_Witness ==
    /\ pc = "compared"
    /\ \/ /\ textB = ""
          /\ overlap.keywords1 # {}
          /\ wordSimilarity.words1 # <<>>
          /\ IsZero(overlap.value)
          /\ IsZero(wordSimilarity.ab)
       \/ /\ textA = "12345"
          /\ textB = "12345"
          /\ overlap.keywords1 = {}
          /\ IsZero(overlap.value)

(***************************************************************************)
(* Properties of the deduplicator with bodies of any type                  *)
(***************************************************************************)
\* C17: isDuplicateComment never raises: with an empty body or a body that
\* is not a string, in the candidate or in an existing comment, it returns a
\* boolean.
C17_NeverRaises ==
    pc = "deduped" => thrown = ""

SameScore(s, t) == s.num * t.den = t.num * s.den

\* 1 - distance / maxLength of two normalized bodies, 1 when both are empty
LevenshteinScore(s1, s2) ==
    LET maxLength == Max(Len(s1), Len(s2))
    IN  IF maxLength = 0 THEN [num |-> 1, den |-> 1]
        ELSE [num |-> maxLength - levenshteinDistance(s1, s2), den |-> maxLength]

\* the score of the formula chosen at a length gap
ScoreAtGap(gap, str1, str2) ==
    IF gap <= LengthGap THEN LevenshteinScore(Normalize(str1), Normalize(str2))
    ELSE wordBasedSimilarity(Normalize(str1), Normalize(str2))

\* C21: stringSimilarity returns the Levenshtein score exactly when the
\* lengths of the two normalized bodies (lowercased, punctuation replaced by
\* spaces, trimmed) differ by at most 20 characters, and the Dice score of
\* the words exactly when they differ by more than 20.
C21_NormalizedGapChoosesFormula ==
    pc \in {"wordSimilarity", "overlap", "compared"} =>
        SameScore(similarity.ab,
                  ScoreAtGap(Abs(Len(Normalize(textA)) - Len(Normalize(textB))), textA, textB))

\* C21 as stated: the gap is the one between the lengths of the two bodies.
C21_BodyGapChoosesFormula ==
    pc \in {"wordSimilarity", "overlap", "compared"} =>
        SameScore(similarity.ab, ScoreAtGap(Abs(Len(textA) - Len(textB)), textA, textB))

\* two bodies 21 characters apart and 20 once normalized, scored by edit
\* distance, and two bodies more than 20 apart both ways, scored by words
C21_Witness ==
    /\ pc = "compared"
    /\ \/ /\ textA = "ab internationalization."
          /\ textB = "api"
          /\ similarity.ab = [num |-> 2, den |-> 23]
       \/ /\ textA = "api internationalization"
          /\ textB = "api"
          /\ similarity.ab = [num |-> 2, den |-> 3]

(***************************************************************************)
(* Properties of the batch of one file (specification Spec)                *)
(***************************************************************************)
\* C23: no two comments of the batch that reviewFile passes to
\* createBatchReviewComments are duplicates of each other under
\* isDuplicateComment.
C23_BatchIsNonRedundant ==
    (pc = "createReview" \/ (pc = "returned" /\ posted # <<>>)) =>
        \A k, l \in 1..Len(validComments) :
            k # l => ~isDuplicateComment(validComments[k], <<validComments[l]>>,
                                         DefaultLineProximity)

(***************************************************************************)
(* Properties of existing comments without a line (SpecExisting)           *)
(***************************************************************************)
\* C24: existing comments that have neither line nor original_line never
\* make isDuplicateComment return true.
C24_LinelessNeverDuplicate ==
    (/\ pc = "deduped"
     /\ \A k \in 1..Len(existingComments) : existingComments[k].line \in {Null, Undefined})
    => ~isDuplicate

(***************************************************************************)
(* Properties of reviewPullRequest (specification SpecPullRequest)         *)
(***************************************************************************)
\* the number of files whose diff was found to have more than 1000 lines
TooLarge == Cardinality({k \in 1..Len(errors) : errors[k] = "File too large to review"})

\* C22: when reviewPullRequest has returned, every file whose diff had more
\* than 1000 lines is in skippedFiles with the reason 'Too many changes
\* (>1000 lines)' and is not counted in reviewedFiles, and the comment
\* 'AI Code Review Summary' listing the skipped files was posted.
C22_LargeFilesAreSkippedAndSummarized ==
    (pc = "resolved" /\ TooLarge > 0) =>
        /\ Len(skippedFiles) = TooLarge
        /\ \A k \in 1..Len(skippedFiles) :
              skippedFiles[k].reason = "Too many changes (>1000 lines)"
        /\ reviewedFiles <= Len(files) - TooLarge
        /\ \E k \in 1..Len(issueComments) :
              /\ issueComments[k].title = "AI Code Review Summary"
              /\ issueComments[k].skipped = skippedFiles

\* C25: reviewFile is invoked on the files in list order, once each: the
\* files invoked so far are the first files of the list, a call of
\* reviewFile always returns to the loop, whatever failed in it, and the
\* loop is left only when every file was passed to reviewFile;
\* reviewPullRequest rejects only before the first file.
C25_EveryFileIsReviewedInOrder ==
    /\ Len(invoked) <= Len(files)
    /\ invoked = SubSeq(files, 1, Len(invoked))
    /\ pc = "forFiles" => Len(invoked) = nextFile - 1
    /\ pc \in {"reviewFile", "getDiff", "checkDiff", "extract", "scan", "extracted",
               "getExisting", "reviewCode", "filter", "createReview", "returned"}
          => Len(invoked) = nextFile /\ file = files[nextFile] /\ rejected = ""
    /\ pc # "threw"
    /\ pc \in {"addSummaryComment", "resolved"} => invoked = files
    /\ (pc = "rejected" \/ rejected # "") => invoked = <<>>

\* two files: getExistingComments fails for the first, and the second is
\* reviewed and gets its comment
C25_Witness ==
    /\ pc = "resolved"
    /\ Len(files) = 2
    /\ invoked = files
    /\ errors = <<"listReviewComments failed">>
    /\ calls = <<"getDiff", "getExistingComments",
                 "getDiff", "getExistingComments", "getFileContent", "reviewCode", "createReview">>
    /\ Len(posted) = 1

\* C26: a file that filterFilesToReview drops under config.fileFilters (its
\* name matches an exclude pattern or no include pattern) is never passed
\* to modelAdapter.reviewCode and gets no review comments.
C26_FilteredFilesAreNotReviewed ==
    pc \in {"filter", "createReview"} => filterFilesToReview(<<file>>, config) = <<file>>

(***************************************************************************)
(* Properties of the commands (specification SpecCli)                      *)
(***************************************************************************)
\* C27: with a .js config file that exists and loads, the config that
\* getModelAdapter and reviewPullRequest read is the file's configuration
\* merged with the defaults: the adapter has the configured model, and
\* commentPrefix and addSummaryComment read as configured.
C27_LoadedConfigReachesTheReview ==
    (/\ pc = "reviewPullRequest"
     /\ cli.configFile.exists /\ cli.configFile.readable /\ cli.configFile.ext = ".js")
    => LET merged == mergeConfigs(defaultConfig, cli.configFile.userConfig)
       IN  /\ adapter.model = (IF merged.model = "" THEN "gpt-4o" ELSE merged.model)
           /\ config.commentPrefix = merged.commentPrefix
           /\ config.addSummaryComment = merged.addSummaryComment

(***************************************************************************)
(* Properties of OpenAIAdapter.reviewCode (specification SpecAdapter)      *)
(***************************************************************************)
\* the place of a comment in the order high, medium, low, anything else
SeverityClass(comment) ==
    CASE ToLower(comment.severity) = "high" -> 0
      [] ToLower(comment.severity) = "medium" -> 1
      [] ToLower(comment.severity) = "low" -> 2
      [] OTHER -> 3

\* C28: the comments that reviewCode returns are ordered by severity: high
\* before medium before low, and a missing or unknown severity last.
C28_OrderedBySeverity ==
    pc = "reviewed" =>
        \A i, j \in 1..Len(reviewComments) :
            i < j => SeverityClass(reviewComments[i]) <= SeverityClass(reviewComments[j])

(***************************************************************************)
(* Properties of deleteUserComments (specification SpecDelete)             *)
(***************************************************************************)
\* the delete requests to send for the items of the user among items
Requests(kind, items) ==
    [k \in 1..Len(ByUser(items)) |-> [kind |-> kind, id |-> ByUser(items)[k].id]]

\* the delete requests sent, without their outcome
Sent == [k \in 1..Len(attempted) |-> [kind |-> attempted[k].kind, id |-> attempted[k].id]]

\* C29: a delete is requested only for items of the given user; once the
\* comments were listed every comment of the user is tried, in turn, and
\* once the reviews were listed every review of the user, whether or not
\* an earlier delete failed.
C29_DeletesAllAndOnlyTheUsers ==
    /\ \A k \in 1..Len(attempted) : attempted[k].user = username
    /\ pc = "deleteComments" => Sent = SubSeq(Requests("comment", apiComments), 1, di - 1)
    /\ pc = "deleteReviews" =>
          Sent = Requests("comment", apiComments)
                    \o SubSeq(Requests("review", apiReviews), 1, di - 1)
    /\ pc = "deleted" =>
          Sent = Requests("comment", apiComments) \o Requests("review", apiReviews)
    /\ (pc = "rejected" /\ rejected = "listReviews failed") =>
          Sent = Requests("comment", apiComments)

\* a comment of the user whose delete failed, the next comment of the user
\* deleted all the same, and the review of somebody else left alone
C29_Witness ==
    /\ pc = "deleted"
    /\ Len(ByUser(apiComments)) = 2
    /\ apiReviews = <<[id |-> 101, user |-> "alice"], [id |-> 102, user |-> "ai-bot"]>>
    /\ attempted = <<[kind |-> "comment", id |-> 1, user |-> "ai-bot", ok |-> FALSE],
                     [kind |-> "comment", id |-> 2, user |-> "ai-bot", ok |-> TRUE],
                     [kind |-> "review", id |-> 102, user |-> "ai-bot", ok |-> TRUE]>>

(***************************************************************************)
(* Properties of isDuplicateComment over the order of the existing list    *)
(***************************************************************************)
\* what a call isDuplicateComment(candidate, existing) ends with
Outcome(candidate, existing) ==
    IF Throws(candidate, existing, DefaultLineProximity) THEN "TypeError"
    ELSE IF isDuplicateComment(candidate, existing, DefaultLineProximity) THEN "true"
    ELSE "false"

\* the lists holding the comments of the list s in another order
Reorderings(s) ==
    {[k \in 1..Len(s) |-> s[p[k]]] : p \in Permutations(1..Len(s))}

\* the lists made of the list s and one more comment, in any place
Extensions(s, pool) ==
    {SubSeq(s, 1, k) \o <<c>> \o SubSeq(s, k + 1, Len(s)) : k \in 0..Len(s), c \in pool}

\* the call that was made ends as the call on every reordering of its list
\* does and, when it returned true, the call on every longer list too
OrderIndependentAndMonotone(pool) ==
    pc = "deduped" =>
       /\ \A r \in Reorderings(existingComments) :
             Outcome(newComment, r) = Outcome(newComment, existingComments)
       /\ Outcome(newComment, existingComments) = "true" =>
             \A e \in Extensions(existingComments, pool) : Outcome(newComment, e) = "true"

\* C30: the result of isDuplicateComment is that of every reordering of the
\* list of existing comments, and a true result stays true when more
\* existing comments are added, with bodies of any type.
C30_OrderIndependentAndMonotone ==
    OrderIndependentAndMonotone([line : {12, 100}, body : UntypedBodies])

\* the same with string bodies only
OrderIndependentAndMonotoneOnStrings ==
    OrderIndependentAndMonotone(ExistingPool)

====
